---- MODULE Spec2Model ----
(***************************************************************************)
(* Model of the projection and edge-detection engine (jobu-algorithm),     *)
(* the RLM detector and the handle-split analysis, the team-stats upsert,  *)
(* the projection pipeline and route, and the backtest.                    *)
(*                                                                         *)
(* Numbers.  The source computes in IEEE doubles.  The model computes in   *)
(* exact rationals <<n, d>> (d > 0, lowest terms), so a threshold such as  *)
(* "|edge| >= 1" or a rounding to one decimal is decided exactly.  A       *)
(* nullable number is a rational or NULL == <<0, 0>>.                      *)
(***************************************************************************)
EXTENDS Integers, Sequences, FiniteSets, TLC

VARIABLES
    pc,              \* position of the caller: "call", "projected", "done"
    args,            \* arguments of the pure function under call
    ret,             \* its return value (NoReturn before the call)
    game,            \* the Game row (generateProjection, pipeline, runBacktest)
    awayTeamStats,   \* generateProjection: {away, season, recent} of the away team
    homeTeamStats,   \* generateProjection: {home, season, recent} of the home team
    options,         \* generateProjection: rest/travel options
    projection,      \* the ProjectionResult (NoProjection before the call)
    currentSpread,   \* identifyOpportunities: market spread or NULL
    currentTotal,    \* identifyOpportunities: market total or NULL
    opportunities,   \* identifyOpportunities: the returned list
    teamStatsTable,      \* rows of the team_stats table, in insertion order
    oddsTable,           \* rows of the odds table of the game, in capture order
    projectionsTable,    \* rows of the projections table, in insertion order
    opportunitiesTable,  \* rows of the opportunities table, in insertion order
    upserts              \* the upsertTeamStats calls in flight, one per caller

vars == <<pc, args, ret, game, awayTeamStats, homeTeamStats, options,
          projection, currentSpread, currentTotal, opportunities,
          teamStatsTable, oddsTable, projectionsTable, opportunitiesTable, upserts>>

projVars == <<game, awayTeamStats, homeTeamStats, options,
              projection, currentSpread, currentTotal, opportunities>>

dbVars == <<teamStatsTable, oddsTable, projectionsTable, opportunitiesTable, upserts>>

-----------------------------------------------------------------------------
(* Exact rational arithmetic *)

Abs(x) == IF x < 0 THEN -x ELSE x

RECURSIVE GCD(_, _)
GCD(a, b) == IF b = 0 THEN a ELSE GCD(b, a % b)

\* n/d in lowest terms with a positive denominator (d # 0)
Q(n, d) ==
    LET g == GCD(Abs(n), Abs(d))
    IN  IF d < 0 THEN <<(-n) \div g, (-d) \div g>> ELSE <<n \div g, d \div g>>

N(k) == <<k, 1>>

NULL == <<0, 0>>

Neg(a) == <<-a[1], a[2]>>

Add(a, b) ==
    LET g == GCD(a[2], b[2])
    IN  Q(a[1] * (b[2] \div g) + b[1] * (a[2] \div g), (a[2] \div g) * b[2])

Sub(a, b) == Add(a, Neg(b))

Mul(a, b) ==
    LET g1 == GCD(Abs(a[1]), b[2])
        g2 == GCD(Abs(b[1]), a[2])
    IN  <<(a[1] \div g1) * (b[1] \div g2), (a[2] \div g2) * (b[2] \div g1)>>

\* a / b for b # 0
Div(a, b) == Mul(a, IF b[1] < 0 THEN <<-b[2], -b[1]>> ELSE <<b[2], b[1]>>)

\* a < b and a <= b; null compares as 0.  Whole parts are compared first and
\* the fractional parts over the common denominator, to keep the products small
Lt(a, b) ==
    LET Whole(x) == IF x[2] = 0 THEN 0 ELSE x[1] \div x[2]
        Frac(x) == IF x[2] = 0 THEN <<0, 1>> ELSE <<x[1] % x[2], x[2]>>
        FracLt(r, t) ==
            LET g == GCD(r[2], t[2])
            IN  r[1] * (t[2] \div g) < t[1] * (r[2] \div g)
    IN  IF Whole(a) # Whole(b) THEN Whole(a) < Whole(b) ELSE FracLt(Frac(a), Frac(b))
Le(a, b) == ~Lt(b, a)
Gt(a, b) == Lt(b, a)
Ge(a, b) == Le(b, a)

AbsQ(a) == <<Abs(a[1]), a[2]>>
MinQ(a, b) == IF Le(a, b) THEN a ELSE b
MaxQ(a, b) == IF Ge(a, b) THEN a ELSE b

\* Math.sign
Sign(a) == IF a[1] > 0 THEN 1 ELSE IF a[1] < 0 THEN -1 ELSE 0

\* Math.round: the integer nearest to a, halves rounded up (floor(a + 1/2))
MathRound(a) ==
    IF (a[1] % a[2]) >= a[2] - (a[1] % a[2]) THEN (a[1] \div a[2]) + 1 ELSE a[1] \div a[2]

\* mutant: the value is rounded to a whole number
Round1_Whole(a) == N(MathRound(a))

\* Math.round(a * 10) / 10
Round1(a) == Q(MathRound(Mul(a, N(10))), 10)

\* Math.round(a * b * 10) / 10 for b > 0, without forming the product a * b:
\* with 10 * b = p / q and a = w + r / d,  10ab = u + (v * d + r * p) / (d * q)
\* where w * p = u * q + v
Round1Mul(a, b) ==
    LET p == Mul(b, N(10))[1]
        q == Mul(b, N(10))[2]
        w == a[1] \div a[2]
        r == a[1] % a[2]
        u == (w * p) \div q
        v == (w * p) % q
    IN  Q(u + MathRound(<<v * a[2] + r * p, a[2] * q>>), 10)

\* JavaScript truthiness of a number | null, and the operators || and ??
Truthy(x) == x # NULL /\ x[1] # 0
Or(x, y) == IF Truthy(x) THEN x ELSE y
Coalesce(x, y) == IF x # NULL THEN x ELSE y

-----------------------------------------------------------------------------
(* Bounds of the model *)

\* stat rows of a catalogue come in levels 0..MaxLevel (better team = higher level)
MaxLevel == 1

\* paces given to calculateExpectedPossessions: 92, 92.5, ... in MaxPaceSteps half steps
MaxPaceSteps == 26

\* edge percentages given to getConfidenceEnhanced: 0, 0.5, ... in MaxEdgeHalves half steps
MaxEdgeHalves == 14

\* volatility scores given to getConfidenceEnhanced: 40, 45, ... in MaxVolSteps steps of 5
MaxVolSteps == 6

\* kill-switch counts given to getConfidenceEnhanced: 0 .. MaxKillSwitches
MaxKillSwitches == 3

\* observations older than the latest one in the lists given to detectRlm
MaxOlder == 1

\* percentages given to analyzeHandleSplit: 30, 35, ... in MaxHandleSteps steps of 5
MaxHandleSteps == 10

\* days off of the rested side given to generateProjection
MaxRestDays == 2

\* concurrent callers of upsertTeamStats (Excel uploads, scrapers)
MaxCallers == 2
\* rows one caller upserts, one after the other
MaxBatch == 2

\* projection runs (runFullPipeline, POST /api/projections/generate) on the game
MaxRuns == 2

\* projected margins given to calculateVolatility: -MaxMargin .. MaxMargin points
MaxMargin == 9

\* opportunities rows of the game that runBacktest replays
MaxOpps == 2

-----------------------------------------------------------------------------
(* Constant tables of jobu-algorithm *)

Sports == {"NFL", "NBA", "CFB", "CBB"}

IsFootball(sport) == sport = "NFL" \/ sport = "CFB"
IsBasketball(sport) == sport = "NBA" \/ sport = "CBB"

BLEND_WEIGHTS ==
    [NFL |-> [homeAway |-> 55, season |-> 35, recent |-> 10],
     NBA |-> [homeAway |-> 50, season |-> 40, recent |-> 10],
     CFB |-> [homeAway |-> 55, season |-> 35, recent |-> 10],
     CBB |-> [homeAway |-> 50, season |-> 40, recent |-> 10]]

\* mutant: every sport falls back to the NFL defaults
DEFAULT_METRICS_AllNFL ==
    [s \in Sports |-> [offEff |-> 21, defEff |-> 21, pace |-> 23]]

DEFAULT_METRICS ==
    [NFL |-> [offEff |-> 21, defEff |-> 21, pace |-> 23],
     NBA |-> [offEff |-> 114, defEff |-> 114, pace |-> 100],
     CFB |-> [offEff |-> 28, defEff |-> 28, pace |-> 70],
     CBB |-> [offEff |-> 105, defEff |-> 105, pace |-> 68]]

-----------------------------------------------------------------------------
(* TeamStats rows.  `defined` is FALSE for an absent row (undefined). *)

StatFields ==
    {"offensivePPP", "defensivePPP", "offensiveRating", "defensiveRating",
     "pace", "possessionsPerGame", "playsPerGame",
     "effectiveFieldGoalPct", "turnoverPct", "offensiveReboundPct",
     "freeThrowRate", "threePointPct", "threePointRate",
     "yardsPerPlay", "opponentYardsPerPlay", "strengthOfSchedule"}

EmptyRow == [f \in StatFields |-> NULL]

WithDefined(row, b) == [f \in StatFields \cup {"defined"} |->
                           IF f = "defined" THEN b ELSE row[f]]

Undefined == WithDefined(EmptyRow, FALSE)

\* homeStats || awayStats on rows
OrStats(a, b) == IF a.defined THEN a ELSE b

-----------------------------------------------------------------------------
(* blendTeamStats *)

normalizeBasketballRating(val) == IF Lt(val, N(2)) THEN Mul(val, N(100)) ELSE val

getOffEff(stats, sport) ==
    IF ~stats.defined THEN NULL
    ELSE IF IsFootball(sport)
         THEN IF Truthy(Or(stats.offensivePPP, stats.yardsPerPlay))
              THEN Mul(Or(stats.offensivePPP, N(0)), N(7))
              ELSE NULL
         ELSE LET rating == Or(stats.offensiveRating, stats.offensivePPP)
              IN  IF Truthy(rating) THEN normalizeBasketballRating(rating) ELSE NULL

getDefEff(stats, sport) ==
    IF ~stats.defined THEN NULL
    ELSE IF IsFootball(sport)
         THEN IF Truthy(Or(stats.defensivePPP, stats.opponentYardsPerPlay))
              THEN Mul(Or(stats.defensivePPP, N(0)), N(7))
              ELSE NULL
         ELSE LET rating == Or(stats.defensiveRating, stats.defensivePPP)
              IN  IF Truthy(rating) THEN normalizeBasketballRating(rating) ELSE NULL

getPace(stats) ==
    IF ~stats.defined THEN NULL
    ELSE Or(stats.pace, Or(stats.possessionsPerGame, stats.playsPerGame))

\* mutant: the weighted sum is divided by the full weight 100, not by the
\* weight of the values that are present
weightedAverage_FullWeight(homeEff, seasonEff, recentEff, weights, dflt) ==
    IF homeEff # NULL \/ seasonEff # NULL \/ recentEff # NULL
    THEN Div(Add(Add(IF homeEff # NULL THEN Mul(homeEff, N(weights.homeAway)) ELSE N(0),
                     IF seasonEff # NULL THEN Mul(seasonEff, N(weights.season)) ELSE N(0)),
                 IF recentEff # NULL THEN Mul(recentEff, N(weights.recent)) ELSE N(0)),
             N(weights.homeAway + weights.season + weights.recent))
    ELSE dflt

\* the weighted average over the non-null values; `dflt` when all are null
weightedAverage(homeEff, seasonEff, recentEff, weights, dflt) ==
    IF homeEff # NULL \/ seasonEff # NULL \/ recentEff # NULL
    THEN LET hw == IF homeEff # NULL THEN weights.homeAway ELSE 0
             sw == IF seasonEff # NULL THEN weights.season ELSE 0
             rw == IF recentEff # NULL THEN weights.recent ELSE 0
             weightedSum ==
                 Add(Add(IF homeEff # NULL THEN Mul(homeEff, N(hw)) ELSE N(0),
                         IF seasonEff # NULL THEN Mul(seasonEff, N(sw)) ELSE N(0)),
                     IF recentEff # NULL THEN Mul(recentEff, N(rw)) ELSE N(0))
             totalWeight == hw + sw + rw
         IN  IF totalWeight > 0 THEN Div(weightedSum, N(totalWeight)) ELSE dflt
    ELSE dflt

blendTeamStats(homeStats, awayStats, seasonStats, recentStats, sport) ==
    LET weights == BLEND_WEIGHTS[sport]
        defaults == DEFAULT_METRICS[sport]
        primary == OrStats(homeStats, awayStats)
        homePace == getPace(primary)
        seasonPace == getPace(seasonStats)
        bestStats == OrStats(homeStats, OrStats(awayStats, seasonStats))
    IN  [offensiveEfficiency |->
             weightedAverage(getOffEff(primary, sport), getOffEff(seasonStats, sport),
                             getOffEff(recentStats, sport), weights, N(defaults.offEff)),
         defensiveEfficiency |->
             weightedAverage(getDefEff(primary, sport), getDefEff(seasonStats, sport),
                             getDefEff(recentStats, sport), weights, N(defaults.defEff)),
         pace |-> IF homePace # NULL THEN homePace
                  ELSE IF seasonPace # NULL THEN seasonPace
                  ELSE N(defaults.pace),
         strengthOfSchedule |-> Or(seasonStats.strengthOfSchedule, N(0)),
         effectiveFieldGoalPct |->
             Coalesce(bestStats.effectiveFieldGoalPct, seasonStats.effectiveFieldGoalPct),
         turnoverPct |-> Coalesce(bestStats.turnoverPct, seasonStats.turnoverPct),
         offensiveReboundPct |->
             Coalesce(bestStats.offensiveReboundPct, seasonStats.offensiveReboundPct),
         freeThrowRate |-> Coalesce(bestStats.freeThrowRate, seasonStats.freeThrowRate),
         oppEffectiveFieldGoalPct |-> NULL,
         oppTurnoverPct |-> NULL,
         oppFreeThrowRate |-> NULL,
         threePointPct |-> Coalesce(bestStats.threePointPct, seasonStats.threePointPct),
         threePointRate |-> Coalesce(bestStats.threePointRate, seasonStats.threePointRate)]

-----------------------------------------------------------------------------
(* calculateExpectedPossessions *)

\* Number.toFixed(0) and toFixed(1), as an integer count of units / of tenths:
\* the nearest one, halves away from zero
ToFixed0(a) == Sign(a) * MathRound(AbsQ(a))
ToFixed1(a) == Sign(a) * MathRound(Mul(AbsQ(a), N(10)))

\* a nullable driver is <<>> (null) or <<driver>>
NoDriver == <<>>

PaceClashDriver(paceDiff, slowerTeam, slowerPace, fasterPace) ==
    [text |-> "Pace clash: poss diff, team controls tempo",
     paceDiff |-> ToFixed1(paceDiff),
     slowerTeam |-> slowerTeam,
     slowerPace |-> ToFixed0(slowerPace),
     fasterPace |-> ToFixed0(fasterPace)]

\* mutant: the faster side is named as the one that controls tempo
calculateExpectedPossessions_FasterNamed(awayPace, homePace, sport) ==
    LET avgPace == Div(Add(awayPace, homePace), N(2))
        paceDiff == AbsQ(Sub(awayPace, homePace))
    IN  IF Gt(paceDiff, N(3)) /\ IsBasketball(sport)
        THEN LET slowerPace == MinQ(awayPace, homePace)
                 fasterPace == MaxQ(awayPace, homePace)
                 adjustedPace == Add(Mul(slowerPace, Q(6, 10)), Mul(fasterPace, Q(4, 10)))
                 slowerTeam == IF Gt(awayPace, homePace) THEN "away" ELSE "home"
             IN  [possessions |-> Mul(adjustedPace, Q(1005, 1000)),
                  paceClash |-> Sub(adjustedPace, avgPace),
                  driver |-> <<PaceClashDriver(paceDiff, slowerTeam, slowerPace, fasterPace)>>]
        ELSE [possessions |-> Mul(avgPace, Q(101, 100)),
              paceClash |-> N(0),
              driver |-> NoDriver]

calculateExpectedPossessions(awayPace, homePace, sport) ==
    LET avgPace == Div(Add(awayPace, homePace), N(2))
        paceDiff == AbsQ(Sub(awayPace, homePace))
    IN  IF Gt(paceDiff, N(3)) /\ IsBasketball(sport)
        THEN LET slowerPace == MinQ(awayPace, homePace)
                 fasterPace == MaxQ(awayPace, homePace)
                 adjustedPace == Add(Mul(slowerPace, Q(6, 10)), Mul(fasterPace, Q(4, 10)))
                 slowerTeam == IF Lt(awayPace, homePace) THEN "away" ELSE "home"
             IN  [possessions |-> Mul(adjustedPace, Q(1005, 1000)),
                  paceClash |-> Sub(adjustedPace, avgPace),
                  driver |-> <<PaceClashDriver(paceDiff, slowerTeam, slowerPace, fasterPace)>>]
        ELSE [possessions |-> Mul(avgPace, Q(101, 100)),
              paceClash |-> N(0),
              driver |-> NoDriver]

-----------------------------------------------------------------------------
(* Constant tables of the projection *)

VENUE_ADJUSTMENTS ==
    [NFL |-> [home |-> Q(25, 10), away |-> Q(-25, 10)],
     NBA |-> [home |-> N(3), away |-> N(-3)],
     CFB |-> [home |-> N(3), away |-> N(-3)],
     CBB |-> [home |-> N(4), away |-> N(-4)]]

FOUR_FACTORS_WEIGHTS ==
    [effectiveFieldGoalPct |-> Q(40, 100),
     turnoverPct |-> Q(25, 100),
     offensiveReboundPct |-> Q(14, 100),
     freeThrowRate |-> Q(15, 100)]

LEAGUE_AVERAGES ==
    [NBA |-> [effectiveFieldGoalPct |-> N(54), turnoverPct |-> Q(135, 10),
              offensiveReboundPct |-> Q(255, 10), freeThrowRate |-> N(27)],
     CBB |-> [effectiveFieldGoalPct |-> N(50), turnoverPct |-> Q(175, 10),
              offensiveReboundPct |-> N(28), freeThrowRate |-> N(32)]]

REST_ADJUSTMENTS ==
    [NBA |-> [backToBack |-> N(-3), backToBackAway |-> Q(-45, 10), extraRest |-> N(1)],
     CBB |-> [backToBack |-> N(-2), backToBackAway |-> N(-3), extraRest |-> Q(5, 10)],
     NFL |-> [backToBack |-> N(0), backToBackAway |-> N(0), extraRest |-> N(0)],
     CFB |-> [backToBack |-> N(0), backToBackAway |-> N(0), extraRest |-> N(0)]]

FIRST_HALF_RATIOS ==
    [NBA |-> [totalPct |-> Q(485, 1000), spreadPct |-> Q(47, 100)],
     CBB |-> [totalPct |-> Q(48, 100), spreadPct |-> Q(46, 100)],
     NFL |-> [totalPct |-> Q(47, 100), spreadPct |-> Q(45, 100)],
     CFB |-> [totalPct |-> Q(47, 100), spreadPct |-> Q(45, 100)]]

\* drivers.push(...) under a condition
PushIf(cond, driver) == IF cond THEN <<driver>> ELSE <<>>

-----------------------------------------------------------------------------
(* analyzeFourFactors *)

\* a nullable FourFactorsEdge is <<>> (null) or <<edge>>
NoFourFactors == <<>>

\* one factor: its edge in points and its driver, when both sides have a value
FactorEdge(awayVal, homeVal, avg, pointsPerPct, weight, homeMinusAway, gap, name, homeBetter) ==
    IF Truthy(awayVal) /\ Truthy(homeVal)
    THEN LET awayDev == Sub(awayVal, avg)
             homeDev == Sub(homeVal, avg)
             diff == IF homeMinusAway THEN Sub(homeDev, awayDev) ELSE Sub(awayDev, homeDev)
         IN  [edge |-> Mul(Mul(diff, pointsPerPct), weight),
              drivers |-> PushIf(Gt(AbsQ(Sub(homeVal, awayVal)), gap),
                                 [text |-> name,
                                  better |-> IF homeBetter THEN "Home" ELSE "Away",
                                  home |-> ToFixed1(homeVal),
                                  away |-> ToFixed1(awayVal)])]
    ELSE [edge |-> N(0), drivers |-> <<>>]

analyzeFourFactors(awayMetrics, homeMetrics, sport) ==
    IF ~IsBasketball(sport) THEN NoFourFactors
    ELSE IF ~Truthy(awayMetrics.effectiveFieldGoalPct)
            /\ ~Truthy(homeMetrics.effectiveFieldGoalPct) THEN NoFourFactors
    ELSE
    LET leagueAvg == LEAGUE_AVERAGES[sport]
        efg == FactorEdge(awayMetrics.effectiveFieldGoalPct, homeMetrics.effectiveFieldGoalPct,
                          leagueAvg.effectiveFieldGoalPct, Q(12, 10),
                          FOUR_FACTORS_WEIGHTS.effectiveFieldGoalPct, TRUE, N(2), "eFG% edge",
                          Gt(homeMetrics.effectiveFieldGoalPct,
                             awayMetrics.effectiveFieldGoalPct))
        tov == FactorEdge(awayMetrics.turnoverPct, homeMetrics.turnoverPct,
                          leagueAvg.turnoverPct, Q(8, 10),
                          FOUR_FACTORS_WEIGHTS.turnoverPct, FALSE, N(2), "turnover edge",
                          Lt(homeMetrics.turnoverPct, awayMetrics.turnoverPct))
        orb == FactorEdge(awayMetrics.offensiveReboundPct, homeMetrics.offensiveReboundPct,
                          leagueAvg.offensiveReboundPct, Q(5, 10),
                          FOUR_FACTORS_WEIGHTS.offensiveReboundPct, TRUE, N(3),
                          "rebounding edge",
                          Gt(homeMetrics.offensiveReboundPct, awayMetrics.offensiveReboundPct))
        ft == FactorEdge(awayMetrics.freeThrowRate, homeMetrics.freeThrowRate,
                         leagueAvg.freeThrowRate, Q(3, 10),
                         FOUR_FACTORS_WEIGHTS.freeThrowRate, TRUE, N(5), "FT rate edge",
                         Gt(homeMetrics.freeThrowRate, awayMetrics.freeThrowRate))
        totalEdge == Add(Add(efg.edge, tov.edge), Add(orb.edge, ft.edge))
    IN  <<[totalEdge |-> Round1(totalEdge),
           efgEdge |-> Round1(efg.edge),
           tovEdge |-> Round1(tov.edge),
           orbEdge |-> Round1(orb.edge),
           ftRateEdge |-> Round1(ft.edge),
           drivers |-> efg.drivers \o tov.drivers \o orb.drivers \o ft.drivers]>>

-----------------------------------------------------------------------------
(* calculateRestAdjustment *)

calculateRestAdjustment(sport, homeRestDays, awayRestDays, isAwayTeamTraveling) ==
    LET restConfig == REST_ADJUSTMENTS[sport]
        homeB2B == homeRestDays # NULL /\ homeRestDays = N(0)
        homeRest == homeRestDays # NULL /\ ~homeB2B /\ Ge(homeRestDays, N(2))
        awayB2BTravel == awayRestDays # NULL /\ awayRestDays = N(0) /\ isAwayTeamTraveling
        awayB2B == awayRestDays # NULL /\ awayRestDays = N(0) /\ ~isAwayTeamTraveling
        awayRest == awayRestDays # NULL /\ awayRestDays # N(0) /\ Ge(awayRestDays, N(2))
    IN  [home |-> IF homeB2B THEN restConfig.backToBack
                  ELSE IF homeRest THEN restConfig.extraRest ELSE N(0),
         away |-> IF awayB2BTravel THEN restConfig.backToBackAway
                  ELSE IF awayB2B THEN restConfig.backToBack
                  ELSE IF awayRest THEN restConfig.extraRest ELSE N(0),
         drivers |->
             PushIf(homeB2B, [text |-> "Home team on back-to-back",
                              pts |-> restConfig.backToBack])
             \o PushIf(homeRest /\ restConfig.extraRest # N(0),
                       [text |-> "Home team extra rest", pts |-> restConfig.extraRest])
             \o PushIf(awayB2BTravel, [text |-> "Away team B2B + travel",
                                       pts |-> restConfig.backToBackAway])
             \o PushIf(awayB2B, [text |-> "Away team on back-to-back",
                                 pts |-> restConfig.backToBack])
             \o PushIf(awayRest /\ restConfig.extraRest # N(0),
                       [text |-> "Away team extra rest", pts |-> restConfig.extraRest])]

-----------------------------------------------------------------------------
(* calculateProjectedScores *)

calculateProjectedScores(awayOffEff, awayDefEff, homeOffEff, homeDefEff, expectedPossessions, sport, isNeutralSite) ==
    LET venueAdj == VENUE_ADJUSTMENTS[sport]
        awayBase == IF IsFootball(sport)
                    THEN Mul(Div(Div(Add(awayOffEff, homeDefEff), N(2)), N(7)),
                             expectedPossessions)
                    ELSE Mul(Div(Add(awayOffEff, homeDefEff), N(2)),
                             Div(expectedPossessions, N(100)))
        homeBase == IF IsFootball(sport)
                    THEN Mul(Div(Div(Add(homeOffEff, awayDefEff), N(2)), N(7)),
                             expectedPossessions)
                    ELSE Mul(Div(Add(homeOffEff, awayDefEff), N(2)),
                             Div(expectedPossessions, N(100)))
    IN  [awayScore |-> IF isNeutralSite THEN awayBase
                       ELSE Add(awayBase, Div(venueAdj.away, N(2))),
         homeScore |-> IF isNeutralSite THEN homeBase
                       ELSE Add(homeBase, Div(venueAdj.home, N(2)))]

-----------------------------------------------------------------------------
(* calculateVolatility *)

\* the running sum that starts at 45, and the drivers pushed along the way
VolatilityTerms(awayMetrics, homeMetrics, marginDiff, sport, fourFactorsEdge, restAdj) ==
    LET sosDiff == AbsQ(Sub(awayMetrics.strengthOfSchedule, homeMetrics.strengthOfSchedule))
        sosMismatch == Gt(sosDiff, N(2))
        margin == AbsQ(marginDiff)
        college == sport = "CFB" \/ sport = "CBB"
        paceDiff == AbsQ(Sub(awayMetrics.pace, homeMetrics.pace))
        paceMismatch == Gt(paceDiff, N(5)) /\ IsBasketball(sport)
        hasEdge == fourFactorsEdge # NoFourFactors
        disagree == /\ hasEdge
                    /\ Gt(AbsQ(fourFactorsEdge[1].totalEdge), N(2))
                    /\ \/ Gt(fourFactorsEdge[1].totalEdge, N(0)) /\ Lt(marginDiff, N(0))
                       \/ Lt(fourFactorsEdge[1].totalEdge, N(0)) /\ Gt(marginDiff, N(0))
        backToBack == Ge(AbsQ(restAdj.home), N(3)) \/ Ge(AbsQ(restAdj.away), N(3))
        incomplete == \/ homeMetrics.effectiveFieldGoalPct = NULL
                      \/ awayMetrics.effectiveFieldGoalPct = NULL
        aligned == /\ Gt(margin, N(8))
                   /\ hasEdge
                   /\ Sign(fourFactorsEdge[1].totalEdge) = Sign(marginDiff)
    IN  [volatility |->
             Add(Add(Add(Add(N(45),
                             IF sosMismatch THEN MinQ(N(15), Mul(sosDiff, N(4))) ELSE N(0)),
                         IF Lt(margin, N(2)) THEN N(18)
                         ELSE IF Lt(margin, N(4)) THEN N(10)
                         ELSE IF Lt(margin, N(7)) THEN N(3) ELSE N(0)),
                     Add(IF college THEN N(8) ELSE N(0),
                         IF paceMismatch THEN MinQ(N(10), Mul(paceDiff, Q(15, 10)))
                         ELSE N(0))),
                 Add(Add(IF disagree THEN N(8) ELSE N(0),
                         IF backToBack THEN N(5) ELSE N(0)),
                     Add(IF incomplete THEN N(5) ELSE N(0),
                         IF aligned THEN N(-8) ELSE N(0)))),
         drivers |->
             PushIf(sosMismatch, [text |-> "SoS mismatch", value |-> ToFixed1(sosDiff)])
             \o PushIf(Lt(margin, N(2)), [text |-> "Near pick'em game"])
             \o PushIf(~Lt(margin, N(2)) /\ Lt(margin, N(4)),
                       [text |-> "Tight projected margin"])
             \o PushIf(college, [text |-> "College sport: higher variance baseline"])
             \o PushIf(paceMismatch, [text |-> "Pace mismatch", value |-> ToFixed0(paceDiff)])
             \o PushIf(disagree, [text |-> "Four Factors and efficiency disagree"])
             \o PushIf(backToBack, [text |-> "Back-to-back in play"])
             \o PushIf(incomplete, [text |-> "Incomplete Four Factors data"])
             \o PushIf(aligned, [text |-> "Large edge + Four Factors alignment"])]

\* mutant: the rounded sum is returned without the clamp to [0, 100]
calculateVolatility_NoClamp(awayMetrics, homeMetrics, marginDiff, sport, fourFactorsEdge, restAdj) ==
    LET terms == VolatilityTerms(awayMetrics, homeMetrics, marginDiff, sport,
                                 fourFactorsEdge, restAdj)
    IN  [score |-> MathRound(terms.volatility),
         drivers |-> terms.drivers]

calculateVolatility(awayMetrics, homeMetrics, marginDiff, sport, fourFactorsEdge, restAdj) ==
    LET terms == VolatilityTerms(awayMetrics, homeMetrics, marginDiff, sport,
                                 fourFactorsEdge, restAdj)
        MinInt(a, b) == IF a <= b THEN a ELSE b
        MaxInt(a, b) == IF a >= b THEN a ELSE b
    IN  [score |-> MinInt(100, MaxInt(0, MathRound(terms.volatility))),
         drivers |-> terms.drivers]

-----------------------------------------------------------------------------
(* generateKillSwitches *)

\* mutant: missing Four Factors data on both sides raises no kill switch
generateKillSwitches_NoDataSilent(sport, volatilityScore, edge, fourFactorsEdge, restAdj, awayMetrics, homeMetrics) ==
    PushIf(volatilityScore > 70 /\ Lt(edge, N(3)),
           "High volatility with small edge")
    \o PushIf(fourFactorsEdge # NoFourFactors
              /\ Gt(AbsQ(fourFactorsEdge[1].totalEdge), Q(15, 10)),
              "Four Factors divergence detected")
    \o PushIf(Gt(AbsQ(Sub(restAdj.home, restAdj.away)), N(4)),
              "Major rest disparity")

generateKillSwitches(sport, volatilityScore, edge, fourFactorsEdge, restAdj, awayMetrics, homeMetrics) ==
    PushIf(volatilityScore > 70 /\ Lt(edge, N(3)),
           "High volatility with small edge")
    \o PushIf(fourFactorsEdge # NoFourFactors
              /\ Gt(AbsQ(fourFactorsEdge[1].totalEdge), Q(15, 10)),
              "Four Factors divergence detected")
    \o PushIf(Gt(AbsQ(Sub(restAdj.home, restAdj.away)), N(4)),
              "Major rest disparity")
    \o PushIf(~Truthy(awayMetrics.effectiveFieldGoalPct)
              /\ ~Truthy(homeMetrics.effectiveFieldGoalPct),
              "No Four Factors data")

-----------------------------------------------------------------------------
(* generateProjection *)

\* const x = e: the value of e, computed once where the source binds it
Const(S) == CHOOSE x \in S : TRUE

\* from the projected total to the returned ProjectionResult
ProjectionResult(gm, awayMetrics, homeMetrics, paceResult, fourFactorsEdge, restAdj, sosAdjustment, adjustedAwayScore, adjustedHomeScore, volatilityResult) ==
    LET sport == gm.sport
        weights == BLEND_WEIGHTS[sport]
        projectedTotal == Add(adjustedAwayScore, adjustedHomeScore)
        projectedMargin == Sub(adjustedHomeScore, adjustedAwayScore)
        fairSpread == Neg(projectedMargin)
        fairTotal == projectedTotal
        killSwitches == generateKillSwitches(sport, volatilityResult.score,
                                             AbsQ(projectedMargin), fourFactorsEdge, restAdj,
                                             awayMetrics, homeMetrics)
        threes == Truthy(awayMetrics.threePointPct) /\ Truthy(homeMetrics.threePointPct)
        drivers ==
            PushIf(Gt(AbsQ(Sub(awayMetrics.offensiveEfficiency,
                               homeMetrics.offensiveEfficiency)), N(5)),
                   [text |-> "has significant offensive efficiency advantage",
                    team |-> IF Gt(awayMetrics.offensiveEfficiency,
                                   homeMetrics.offensiveEfficiency)
                             THEN gm.awayTeamName ELSE gm.homeTeamName])
            \o PushIf(Gt(AbsQ(Sub(awayMetrics.defensiveEfficiency,
                                  homeMetrics.defensiveEfficiency)), N(5)),
                      [text |-> "has defensive edge",
                       team |-> IF Lt(awayMetrics.defensiveEfficiency,
                                      homeMetrics.defensiveEfficiency)
                                THEN gm.awayTeamName ELSE gm.homeTeamName])
            \o paceResult.driver
            \o PushIf(Gt(AbsQ(sosAdjustment), N(1)),
                      [text |-> "SoS adjustment", value |-> ToFixed1(sosAdjustment)])
            \o (IF fourFactorsEdge # NoFourFactors
                THEN fourFactorsEdge[1].drivers
                     \o PushIf(Gt(AbsQ(fourFactorsEdge[1].totalEdge), N(1)),
                               [text |-> "Four Factors net edge",
                                value |-> ToFixed1(fourFactorsEdge[1].totalEdge)])
                ELSE <<>>)
            \o restAdj.drivers
            \o PushIf(threes /\ Gt(AbsQ(Sub(awayMetrics.threePointPct,
                                            homeMetrics.threePointPct)), N(3)),
                      [text |-> "3PT edge",
                       team |-> IF Gt(awayMetrics.threePointPct, homeMetrics.threePointPct)
                                THEN gm.awayTeamName ELSE gm.homeTeamName,
                       high |-> ToFixed1(MaxQ(awayMetrics.threePointPct,
                                              homeMetrics.threePointPct)),
                       low |-> ToFixed1(MinQ(awayMetrics.threePointPct,
                                             homeMetrics.threePointPct))])
        fhRatios == FIRST_HALF_RATIOS[sport]
    IN  [projectedAwayScore |-> Round1(adjustedAwayScore),
         projectedHomeScore |-> Round1(adjustedHomeScore),
         projectedTotal |-> Round1(projectedTotal),
         projectedMargin |-> Round1(projectedMargin),
         fairSpread |-> Round1(fairSpread),
         fairTotal |-> Round1(fairTotal),
         expectedPossessions |-> Round1(paceResult.possessions),
         volatilityScore |-> volatilityResult.score,
         volatilityDrivers |-> volatilityResult.drivers,
         blendBreakdown |-> weights,
         sosAdjustment |-> Round1(sosAdjustment),
         fourFactorsEdge |-> fourFactorsEdge,
         restAdjustment |-> restAdj,
         paceClashAdjustment |-> Round1(paceResult.paceClash),
         drivers |-> drivers,
         killSwitches |-> killSwitches,
         firstHalf |->
             [fairSpread |-> Round1Mul(fairSpread, fhRatios.spreadPct),
              fairTotal |-> Round1Mul(fairTotal, fhRatios.totalPct),
              projectedAwayScore |-> Round1Mul(adjustedAwayScore, fhRatios.totalPct),
              projectedHomeScore |-> Round1Mul(adjustedHomeScore, fhRatios.totalPct)]]

\* base scores, then the strength-of-schedule, four-factors and rest adjustments
AdjustScores(gm, awayMetrics, homeMetrics, paceResult, fourFactorsEdge, restAdj, sosAdjustment) ==
    LET sport == gm.sport
        base == calculateProjectedScores(awayMetrics.offensiveEfficiency,
                                         awayMetrics.defensiveEfficiency,
                                         homeMetrics.offensiveEfficiency,
                                         homeMetrics.defensiveEfficiency,
                                         paceResult.possessions, sport, gm.isNeutralSite)
        halfEdge == IF fourFactorsEdge # NoFourFactors
                    THEN Div(fourFactorsEdge[1].totalEdge, N(2)) ELSE N(0)
    IN  Const({Const({ProjectionResult(gm, awayMetrics, homeMetrics, paceResult,
                                       fourFactorsEdge, restAdj, sosAdjustment,
                                       adjustedAwayScore, adjustedHomeScore, volatilityResult) :
                        volatilityResult \in
                            {calculateVolatility(awayMetrics, homeMetrics,
                                                 Sub(adjustedHomeScore, adjustedAwayScore),
                                                 sport, fourFactorsEdge, restAdj)}}) :
                 adjustedAwayScore \in
                     {Add(Sub(Sub(base.awayScore, Div(sosAdjustment, N(2))), halfEdge),
                          restAdj.away)},
                 adjustedHomeScore \in
                     {Add(Add(Add(base.homeScore, Div(sosAdjustment, N(2))), halfEdge),
                          restAdj.home)}})

generateProjection(gm, awayStats, homeStats, opts) ==
    LET sport == gm.sport
    IN  Const({Const({AdjustScores(gm, awayMetrics, homeMetrics, paceResult,
                                   fourFactorsEdge, restAdj, sosAdjustment) :
                        paceResult \in
                            {calculateExpectedPossessions(awayMetrics.pace, homeMetrics.pace,
                                                          sport)},
                        fourFactorsEdge \in {analyzeFourFactors(awayMetrics, homeMetrics, sport)},
                        restAdj \in
                            {calculateRestAdjustment(sport, opts.homeRestDays,
                                                     opts.awayRestDays,
                                                     opts.isAwayTeamTraveling)},
                        sosAdjustment \in
                            {Mul(Sub(homeMetrics.strengthOfSchedule,
                                     awayMetrics.strengthOfSchedule), Q(5, 10))}}) :
                 awayMetrics \in
                     {blendTeamStats(awayStats.away, Undefined, awayStats.season,
                                     awayStats.recent, sport)},
                 homeMetrics \in
                     {blendTeamStats(homeStats.home, Undefined, homeStats.season,
                                     homeStats.recent, sport)}})

-----------------------------------------------------------------------------
(* getConfidenceEnhanced *)

\* mutant: the Four Factors count as aligned from a total edge above 1.2
FourFactorsAligned_AboveOnePointTwo(fourFactorsEdge) ==
    fourFactorsEdge # NoFourFactors /\ Gt(AbsQ(fourFactorsEdge[1].totalEdge), Q(12, 10))

FourFactorsAligned(fourFactorsEdge) ==
    fourFactorsEdge # NoFourFactors /\ Gt(AbsQ(fourFactorsEdge[1].totalEdge), N(1))

\* mutant: the 5.5 test of the basketball branch is inverted
getConfidenceEnhanced_Inverted(edgePct, volatility, fourFactorsEdge, killSwitchCount, sport) ==
    IF killSwitchCount >= 2 THEN "Lean"
    ELSE IF IsBasketball(sport)
    THEN IF Ge(edgePct, Q(45, 10)) /\ volatility < 50 /\ killSwitchCount = 0
         THEN IF FourFactorsAligned(fourFactorsEdge) THEN "High"
              ELSE IF Ge(edgePct, Q(55, 10)) THEN "Medium" ELSE "High"
         ELSE IF Ge(edgePct, N(3)) /\ volatility < 60 THEN "Medium"
         ELSE "Lean"
    ELSE IF Ge(edgePct, N(4)) /\ volatility < 55 /\ killSwitchCount = 0 THEN "High"
    ELSE IF Ge(edgePct, Q(25, 10)) /\ volatility < 65 THEN "Medium"
    ELSE "Lean"

\* mutant: two kill switches no longer demote, it takes three
getConfidenceEnhanced_ThreeToDemote(edgePct, volatility, fourFactorsEdge, killSwitchCount, sport) ==
    IF killSwitchCount >= 3 THEN "Lean"
    ELSE IF IsBasketball(sport)
    THEN IF Ge(edgePct, Q(45, 10)) /\ volatility < 50 /\ killSwitchCount \in {0, 2}
         THEN IF FourFactorsAligned(fourFactorsEdge) THEN "High"
              ELSE IF Ge(edgePct, Q(55, 10)) THEN "High" ELSE "Medium"
         ELSE IF Ge(edgePct, N(3)) /\ volatility < 60 THEN "Medium"
         ELSE "Lean"
    ELSE IF Ge(edgePct, N(4)) /\ volatility < 55 /\ killSwitchCount \in {0, 2} THEN "High"
    ELSE IF Ge(edgePct, Q(25, 10)) /\ volatility < 65 THEN "Medium"
    ELSE "Lean"

getConfidenceEnhanced(edgePct, volatility, fourFactorsEdge, killSwitchCount, sport) ==
    IF killSwitchCount >= 2 THEN "Lean"
    ELSE IF IsBasketball(sport)
    THEN IF Ge(edgePct, Q(45, 10)) /\ volatility < 50 /\ killSwitchCount = 0
         THEN IF FourFactorsAligned(fourFactorsEdge) THEN "High"
              ELSE IF Ge(edgePct, Q(55, 10)) THEN "High" ELSE "Medium"
         ELSE IF Ge(edgePct, N(3)) /\ volatility < 60 THEN "Medium"
         ELSE IF Ge(edgePct, N(2)) THEN "Lean"
         ELSE "Lean"
    ELSE IF Ge(edgePct, N(4)) /\ volatility < 55 /\ killSwitchCount = 0 THEN "High"
    ELSE IF Ge(edgePct, Q(25, 10)) /\ volatility < 65 THEN "Medium"
    ELSE "Lean"

-----------------------------------------------------------------------------
(* identifyOpportunities *)

Opportunity(gameId, sport, marketType, side, currentLine, fairLine, edgePct, confidence, volatilityScore, drivers, killSwitches) ==
    [gameId |-> gameId,
     sport |-> sport,
     marketType |-> marketType,
     side |-> side,
     currentLine |-> currentLine,
     currentOdds |-> -110,
     fairLine |-> fairLine,
     edgePercentage |-> Round1(edgePct),
     confidence |-> confidence,
     volatilityScore |-> volatilityScore,
     isReverseLineMovement |-> FALSE,
     drivers |-> drivers,
     \* a nullable list is <<>> (null) or <<list>>
     killSwitches |-> IF Len(killSwitches) > 0 THEN <<killSwitches>> ELSE <<>>,
     status |-> "active"]

\* mutant: a spread opportunity is created from half a point of edge
SpreadOpportunity_HalfPoint(gameId, sport, proj, spread) ==
    IF spread = NULL THEN <<>>
    ELSE LET spreadEdge == Sub(proj.fairSpread, spread)
             spreadEdgePct == Mul(Div(AbsQ(spreadEdge), AbsQ(Or(spread, N(1)))), N(100))
         IN  IF Ge(AbsQ(spreadEdge), Q(5, 10))
             THEN <<Opportunity(gameId, sport, "spread",
                                IF Gt(spreadEdge, N(0)) THEN "away" ELSE "home",
                                spread, proj.fairSpread, spreadEdgePct,
                                getConfidenceEnhanced(spreadEdgePct, proj.volatilityScore,
                                                      proj.fourFactorsEdge,
                                                      Len(proj.killSwitches), sport),
                                proj.volatilityScore, proj.drivers, proj.killSwitches)>>
             ELSE <<>>

\* mutant: the divisor of the spread edge percentage is floored at 1
SpreadOpportunity_FloorOne(gameId, sport, proj, spread) ==
    IF spread = NULL THEN <<>>
    ELSE LET spreadEdge == Sub(proj.fairSpread, spread)
             spreadEdgePct == Mul(Div(AbsQ(spreadEdge), MaxQ(AbsQ(spread), N(1))), N(100))
         IN  IF Ge(AbsQ(spreadEdge), N(1))
             THEN <<Opportunity(gameId, sport, "spread",
                                IF Gt(spreadEdge, N(0)) THEN "away" ELSE "home",
                                spread, proj.fairSpread, spreadEdgePct,
                                getConfidenceEnhanced(spreadEdgePct, proj.volatilityScore,
                                                      proj.fourFactorsEdge,
                                                      Len(proj.killSwitches), sport),
                                proj.volatilityScore, proj.drivers, proj.killSwitches)>>
             ELSE <<>>

\* the full-game spread check
\* mutant: a spread opportunity needs four points of edge
SpreadOpportunity_FourPoints(gameId, sport, proj, spread) ==
    IF spread = NULL THEN <<>>
    ELSE LET spreadEdge == Sub(proj.fairSpread, spread)
             spreadEdgePct == Mul(Div(AbsQ(spreadEdge), AbsQ(Or(spread, N(1)))), N(100))
         IN  IF Ge(AbsQ(spreadEdge), N(4))
             THEN <<Opportunity(gameId, sport, "spread",
                                IF Gt(spreadEdge, N(0)) THEN "away" ELSE "home",
                                spread, proj.fairSpread, spreadEdgePct,
                                getConfidenceEnhanced(spreadEdgePct, proj.volatilityScore,
                                                      proj.fourFactorsEdge,
                                                      Len(proj.killSwitches), sport),
                                proj.volatilityScore, proj.drivers, proj.killSwitches)>>
             ELSE <<>>

SpreadOpportunity(gameId, sport, proj, spread) ==
    IF spread = NULL THEN <<>>
    ELSE LET spreadEdge == Sub(proj.fairSpread, spread)
             spreadEdgePct == Mul(Div(AbsQ(spreadEdge), AbsQ(Or(spread, N(1)))), N(100))
         IN  IF Ge(AbsQ(spreadEdge), N(1))
             THEN <<Opportunity(gameId, sport, "spread",
                                IF Gt(spreadEdge, N(0)) THEN "away" ELSE "home",
                                spread, proj.fairSpread, spreadEdgePct,
                                getConfidenceEnhanced(spreadEdgePct, proj.volatilityScore,
                                                      proj.fourFactorsEdge,
                                                      Len(proj.killSwitches), sport),
                                proj.volatilityScore, proj.drivers, proj.killSwitches)>>
             ELSE <<>>

\* mutant: two kill switches refuse the total opportunity
TotalOpportunity_Refused(gameId, sport, proj, total) ==
    IF total = NULL \/ Len(proj.killSwitches) >= 2 THEN <<>>
    ELSE LET totalEdge == Sub(proj.fairTotal, total)
             totalEdgePct == Mul(Div(AbsQ(totalEdge), total), N(100))
         IN  IF Ge(AbsQ(totalEdge), N(2))
             THEN <<Opportunity(gameId, sport, "total",
                                IF Gt(totalEdge, N(0)) THEN "over" ELSE "under",
                                total, proj.fairTotal, totalEdgePct,
                                getConfidenceEnhanced(totalEdgePct, proj.volatilityScore,
                                                      proj.fourFactorsEdge,
                                                      Len(proj.killSwitches), sport),
                                proj.volatilityScore, proj.drivers, proj.killSwitches)>>
             ELSE <<>>

\* the full-game total check (total # 0)
TotalOpportunity(gameId, sport, proj, total) ==
    IF total = NULL THEN <<>>
    ELSE LET totalEdge == Sub(proj.fairTotal, total)
             totalEdgePct == Mul(Div(AbsQ(totalEdge), total), N(100))
         IN  IF Ge(AbsQ(totalEdge), N(2))
             THEN <<Opportunity(gameId, sport, "total",
                                IF Gt(totalEdge, N(0)) THEN "over" ELSE "under",
                                total, proj.fairTotal, totalEdgePct,
                                getConfidenceEnhanced(totalEdgePct, proj.volatilityScore,
                                                      proj.fourFactorsEdge,
                                                      Len(proj.killSwitches), sport),
                                proj.volatilityScore, proj.drivers, proj.killSwitches)>>
             ELSE <<>>

\* the first-half spread check
FirstHalfOpportunity(gameId, sport, proj, spread) ==
    IF spread = NULL THEN <<>>
    ELSE LET fhMarketSpread == Mul(spread, Or(FIRST_HALF_RATIOS[sport].spreadPct, Q(47, 100)))
             fhEdge == Sub(proj.firstHalf.fairSpread, fhMarketSpread)
             fhEdgePct == Mul(Div(AbsQ(fhEdge), AbsQ(Or(fhMarketSpread, N(1)))), N(100))
         IN  IF Ge(AbsQ(fhEdge), Q(15, 10)) /\ Ge(fhEdgePct, N(3))
             THEN <<Opportunity(gameId, sport, "1h",
                                IF Gt(fhEdge, N(0)) THEN "away" ELSE "home",
                                Round1(fhMarketSpread), proj.firstHalf.fairSpread, fhEdgePct,
                                getConfidenceEnhanced(fhEdgePct, proj.volatilityScore + 5,
                                                      proj.fourFactorsEdge,
                                                      Len(proj.killSwitches), sport),
                                proj.volatilityScore + 5,
                                proj.drivers \o <<[text |-> "First-half play derived from full-game projection"]>>,
                                proj.killSwitches)>>
             ELSE <<>>

identifyOpportunities(gameId, sport, proj, spread, total) ==
    SpreadOpportunity(gameId, sport, proj, spread)
    \o TotalOpportunity(gameId, sport, proj, total)
    \o FirstHalfOpportunity(gameId, sport, proj, spread)

-----------------------------------------------------------------------------
(* detectRlm and analyzeHandleSplit *)

\* mutant: the public threshold is read as "more than half"
RLM_THRESHOLDS_LowPublic ==
    [STRONG_DIVERGENCE |-> N(15), MODERATE_DIVERGENCE |-> N(10), WEAK_DIVERGENCE |-> N(5),
     STRONG_MOVEMENT |-> Q(15, 10), MODERATE_MOVEMENT |-> N(1), WEAK_MOVEMENT |-> Q(5, 10),
     PUBLIC_THRESHOLD |-> N(50), HEAVY_PUBLIC |-> N(70)]

\* mutant: the public side counts from 55% of the tickets
RLM_THRESHOLDS_PublicFiftyFive ==
    [STRONG_DIVERGENCE |-> N(15), MODERATE_DIVERGENCE |-> N(10), WEAK_DIVERGENCE |-> N(5),
     STRONG_MOVEMENT |-> Q(15, 10), MODERATE_MOVEMENT |-> N(1), WEAK_MOVEMENT |-> Q(5, 10),
     PUBLIC_THRESHOLD |-> N(55), HEAVY_PUBLIC |-> N(70)]

\* mutant: "strong" does not ask for a heavy public side
RLM_THRESHOLDS_NoHeavy ==
    [STRONG_DIVERGENCE |-> N(15), MODERATE_DIVERGENCE |-> N(10), WEAK_DIVERGENCE |-> N(5),
     STRONG_MOVEMENT |-> Q(15, 10), MODERATE_MOVEMENT |-> N(1), WEAK_MOVEMENT |-> Q(5, 10),
     PUBLIC_THRESHOLD |-> N(60), HEAVY_PUBLIC |-> N(60)]

RLM_THRESHOLDS ==
    [STRONG_DIVERGENCE |-> N(15), MODERATE_DIVERGENCE |-> N(10), WEAK_DIVERGENCE |-> N(5),
     STRONG_MOVEMENT |-> Q(15, 10), MODERATE_MOVEMENT |-> N(1), WEAK_MOVEMENT |-> Q(5, 10),
     PUBLIC_THRESHOLD |-> N(60), HEAVY_PUBLIC |-> N(70)]

\* Array.prototype.filter
RECURSIVE Filter(_, _)
Filter(seq, market) ==
    IF seq = <<>> THEN <<>>
    ELSE IF Head(seq).marketType = market
         THEN <<Head(seq)>> \o Filter(Tail(seq), market)
         ELSE Filter(Tail(seq), market)

\* x inserted into the sorted seq after every element that is not after it
\* (dir = 1: ascending capturedAt, dir = -1: descending), as a stable sort does
RECURSIVE InsertSorted(_, _, _)
InsertSorted(x, seq, dir) ==
    IF seq = <<>> THEN <<x>>
    ELSE IF dir * (x.capturedAt - Head(seq).capturedAt) < 0
         THEN <<x>> \o seq
         ELSE <<Head(seq)>> \o InsertSorted(x, Tail(seq), dir)

\* Array.prototype.sort by capturedAt (stable)
RECURSIVE SortByCapturedAt(_, _)
SortByCapturedAt(seq, dir) ==
    IF seq = <<>> THEN <<>>
    ELSE InsertSorted(seq[Len(seq)], SortByCapturedAt(SubSeq(seq, 1, Len(seq) - 1), dir), dir)

\* a nullable RlmAnalysis is <<>> (null) or <<analysis>>
NoSignal == <<>>

detectRlm(bettingPcts, lineMovements, marketType) ==
    LET sortedPcts == SortByCapturedAt(Filter(bettingPcts, marketType), -1)
        movements == SortByCapturedAt(Filter(lineMovements, marketType), 1)
    IN  IF sortedPcts = <<>> THEN NoSignal
        ELSE IF movements = <<>> THEN NoSignal
        ELSE
        LET latestPcts == sortedPcts[1]
            firstMovement == movements[1]
            lastMovement == movements[Len(movements)]
            totalMovement == Sub(lastMovement.currentValue, firstMovement.previousValue)
            movementDirection == IF Gt(totalMovement, N(0)) THEN "up" ELSE "down"
            movementSize == AbsQ(totalMovement)
            ticketPct == latestPcts.ticketPercentage
            moneyPct == latestPcts.moneyPercentage
            side == latestPcts.side
            divergence == AbsQ(Sub(moneyPct, ticketPct))
            OtherSide(s) == IF s = "home" THEN "away" ELSE "home"
            publicSide == IF Gt(ticketPct, N(50)) THEN side ELSE OtherSide(side)
            moneySide == IF Gt(moneyPct, N(50)) THEN side ELSE OtherSide(side)
            isRlm == /\ publicSide # moneySide
                     /\ Ge(ticketPct, RLM_THRESHOLDS.PUBLIC_THRESHOLD)
                     /\ Ge(divergence, RLM_THRESHOLDS.WEAK_DIVERGENCE)
                     /\ Ge(movementSize, RLM_THRESHOLDS.WEAK_MOVEMENT)
            signalStrength ==
                IF /\ Ge(divergence, RLM_THRESHOLDS.STRONG_DIVERGENCE)
                   /\ Ge(movementSize, RLM_THRESHOLDS.STRONG_MOVEMENT)
                   /\ Ge(ticketPct, RLM_THRESHOLDS.HEAVY_PUBLIC)
                THEN "strong"
                ELSE IF /\ Ge(divergence, RLM_THRESHOLDS.MODERATE_DIVERGENCE)
                        /\ Ge(movementSize, RLM_THRESHOLDS.MODERATE_MOVEMENT)
                THEN "moderate"
                ELSE "weak"
        IN  IF ~isRlm THEN NoSignal
            ELSE <<[isRlm |-> TRUE,
                    signalStrength |-> signalStrength,
                    ticketPercentage |-> ticketPct,
                    moneyPercentage |-> moneyPct,
                    lineMovementDirection |-> movementDirection,
                    lineMovementSize |-> movementSize,
                    side |-> moneySide,
                    marketType |-> marketType]>>

\* mutant: the sharp-money flag ignores which of the two is larger
analyzeHandleSplit_Unsigned(ticketPct, moneyPct) ==
    LET divergence == AbsQ(Sub(moneyPct, ticketPct))
        isSharpMoney == Ge(divergence, N(10))
    IN  [divergence |-> divergence,
         isSharpMoney |-> isSharpMoney,
         sharpSide |-> IF isSharpMoney THEN "sharp" ELSE "public",
         recommendation |->
             IF Ge(divergence, N(20))
             THEN "Strong sharp money indicator. Consider fading the public."
             ELSE IF Ge(divergence, N(15))
             THEN "Moderate sharp money divergence. Worth monitoring."
             ELSE IF Ge(divergence, N(10))
             THEN "Slight sharp money lean detected."
             ELSE "No significant handle split detected."]

analyzeHandleSplit(ticketPct, moneyPct) ==
    LET divergence == AbsQ(Sub(moneyPct, ticketPct))
        isSharpMoney == Ge(divergence, N(10)) /\ Gt(moneyPct, ticketPct)
    IN  [divergence |-> divergence,
         isSharpMoney |-> isSharpMoney,
         sharpSide |-> IF isSharpMoney THEN "sharp" ELSE "public",
         recommendation |->
             IF Ge(divergence, N(20))
             THEN "Strong sharp money indicator. Consider fading the public."
             ELSE IF Ge(divergence, N(15))
             THEN "Moderate sharp money divergence. Worth monitoring."
             ELSE IF Ge(divergence, N(10))
             THEN "Slight sharp money lean detected."
             ELSE "No significant handle split detected."]

-----------------------------------------------------------------------------
(* runBacktest (server/services/backtesting.ts)                             *)

\* the value of 0 / 0, not a number; no rational of the model has a negative
\* denominator
NaN == <<0, -1>>

determineSpreadResult(side, line, homeScore, awayScore) ==
    LET actualMargin == N(homeScore - awayScore)
        coverMargin == IF side = "home" THEN Add(actualMargin, line)
                       ELSE Add(Neg(actualMargin), line)
    IN  IF Gt(coverMargin, N(0)) THEN "win"
        ELSE IF Lt(coverMargin, N(0)) THEN "loss"
        ELSE "push"

determineTotalResult(side, line, homeScore, awayScore) ==
    LET actualTotal == N(homeScore + awayScore)
    IN  IF side = "over"
        THEN IF Gt(actualTotal, line) THEN "win"
             ELSE IF Lt(actualTotal, line) THEN "loss"
             ELSE "push"
        ELSE IF Lt(actualTotal, line) THEN "win"
             ELSE IF Gt(actualTotal, line) THEN "loss"
             ELSE "push"

\* the WHERE clause of the join of opportunities and games; a score column
\* that is null is <<>>
BacktestConditions(config, gm, opportunity) ==
    /\ opportunity.gameId = gm.id
    /\ gm.gameDate >= config.dateFrom
    /\ gm.gameDate <= config.dateTo
    /\ gm.status = "final"
    /\ gm.homeScore # <<>>
    /\ gm.awayScore # <<>>
    /\ (config.sport # "" /\ config.sport # "ALL") => gm.sport = config.sport
    /\ config.signalType = "rlm" => opportunity.isReverseLineMovement
    /\ config.signalType = "high_confidence" => opportunity.confidence = "High"
    /\ (config.minEdge # NULL /\ Gt(config.minEdge, N(0)))
           => (opportunity.edgePercentage # NULL
               /\ Ge(opportunity.edgePercentage, config.minEdge))
    /\ config.minConfidence # "" => opportunity.confidence = config.minConfidence

\* the graded outcome of one row of the join
BacktestOutcome(gm, opportunity) ==
    LET result ==
            IF opportunity.marketType = "spread"
            THEN determineSpreadResult(opportunity.side, Or(opportunity.currentLine, N(0)),
                                       gm.homeScore[1], gm.awayScore[1])
            ELSE determineTotalResult(opportunity.side, Or(opportunity.currentLine, N(0)),
                                      gm.homeScore[1], gm.awayScore[1])
    IN  [opportunityId |-> opportunity.id,
         gameId |-> gm.id,
         marketType |-> opportunity.marketType,
         side |-> opportunity.side,
         currentLine |-> Or(opportunity.currentLine, N(0)),
         result |-> result,
         actualMargin |-> gm.homeScore[1] - gm.awayScore[1],
         profitUnits |-> IF result = "win" THEN Q(91, 100)
                         ELSE IF result = "loss" THEN N(-1) ELSE N(0)]

\* reduce((sum, x) => sum + x, 0) over a list of numbers
RECURSIVE SumQ(_)
SumQ(seq) == IF seq = <<>> THEN N(0) ELSE Add(seq[1], SumQ(Tail(seq)))

\* the outcomes list and the summary runBacktest returns
runBacktest(config, gm, table) ==
    LET completedGames ==
            SelectSeq(table, LAMBDA opportunity : BacktestConditions(config, gm, opportunity))
        outcomes == [i \in 1 .. Len(completedGames) |-> BacktestOutcome(gm, completedGames[i])]
        \* outcomes.filter(o => o.result === result).length
        CountResult(result) ==
            Cardinality({i \in 1 .. Len(outcomes) : outcomes[i].result = result})
        \* Math.round(a * 100) / 100
        Round2(a) == Q(MathRound(Mul(a, N(100))), 100)
        \* the wins, losses and pushes of the outcomes whose index is in the set
        Record(indices) ==
            [wins |-> Cardinality({i \in indices : outcomes[i].result = "win"}),
             losses |-> Cardinality({i \in indices : outcomes[i].result = "loss"}),
             pushes |-> Cardinality({i \in indices : outcomes[i].result = "push"})]
        \* confidence?.toLowerCase()
        ToLowerCase(confidence) ==
            IF confidence = "High" THEN "high"
            ELSE IF confidence = "Medium" THEN "medium"
            ELSE IF confidence = "Lean" THEN "lean"
            ELSE confidence
        wins == CountResult("win")
        losses == CountResult("loss")
        pushes == CountResult("push")
        totalSignals == Len(outcomes)
        winPercentage ==
            IF totalSignals > 0
            THEN IF wins + losses = 0 THEN NaN
                 ELSE Mul(Q(wins, wins + losses), N(100))
            ELSE N(0)
        unitsProfitLoss == SumQ([i \in 1 .. Len(outcomes) |-> outcomes[i].profitUnits])
        roi == IF wins + losses > 0
               THEN Mul(Div(unitsProfitLoss, N(wins + losses)), N(100))
               ELSE N(0)
        avgEdge ==
            IF Len(completedGames) > 0
            THEN Div(SumQ([i \in 1 .. Len(completedGames) |->
                              Or(completedGames[i].edgePercentage, N(0))]),
                     N(Len(completedGames)))
            ELSE N(0)
        withConfidence(c) ==
            {i \in 1 .. Len(outcomes) : ToLowerCase(completedGames[i].confidence) = c}
        ofMarket(m) == {i \in 1 .. Len(outcomes) : outcomes[i].marketType = m}
    IN  [outcomes |-> outcomes,
         summary |->
             [totalSignals |-> totalSignals,
              wins |-> wins,
              losses |-> losses,
              pushes |-> pushes,
              winPercentage |-> IF winPercentage = NaN THEN NaN ELSE Round1(winPercentage),
              roi |-> Round1(roi),
              avgEdge |-> Round1(avgEdge),
              unitsProfitLoss |-> Round2(unitsProfitLoss),
              byConfidence |-> [high |-> Record(withConfidence("high")),
                                medium |-> Record(withConfidence("medium")),
                                lean |-> Record(withConfidence("lean"))],
              byMarketType |-> [spread |-> Record(ofMarket("spread")),
                                total |-> Record(ofMarket("total"))]]]

-----------------------------------------------------------------------------
(* Catalogue of TeamStats rows the model draws its inputs from *)

\* league-typical tempo of a sport: possessions (basketball) or plays (football)
BasePace(sport) ==
    CASE sport = "NBA" -> 100 [] sport = "CBB" -> 68 [] sport = "NFL" -> 63 [] sport = "CFB" -> 70

\* a basketball row with ratings, pace, schedule strength and Four Factors
RatedBasketballRow(sport, k) ==
    WithDefined([EmptyRow EXCEPT
        !["offensiveRating"] = N(110 + 9 * k),
        !["defensiveRating"] = N(113 - 9 * k),
        !["pace"] = N(BasePace(sport) + 10 * k),
        !["strengthOfSchedule"] = Q(38 + 4 * k, 10),
        !["effectiveFieldGoalPct"] = Q(520 + 25 * k, 10),
        !["turnoverPct"] = Q(140 - 12 * k, 10),
        !["offensiveReboundPct"] = Q(250 + 35 * k, 10),
        !["freeThrowRate"] = Q(260 + 55 * k, 10),
        !["threePointPct"] = Q(350 + 32 * k, 10),
        !["threePointRate"] = Q(400 + 10 * k, 10)], TRUE)

\* a basketball row whose efficiency is given as points per possession (1.01)
FractionBasketballRow(sport, k) ==
    WithDefined([EmptyRow EXCEPT
        !["offensivePPP"] = Q(101 + 9 * k, 100),
        !["defensivePPP"] = Q(104 - 9 * k, 100),
        !["possessionsPerGame"] = N(BasePace(sport) - 10 + 20 * k)], TRUE)

\* a basketball row with the pace, schedule and factors of the level-1 row
\* and the ratings of the level-0 row, its eFG% the given number of tenths
ShootingRow(sport, efgTenths) ==
    [RatedBasketballRow(sport, 1) EXCEPT
        !["offensiveRating"] = N(110),
        !["defensiveRating"] = N(113),
        !["effectiveFieldGoalPct"] = Q(efgTenths, 10)]

\* a football row with points per play, yards per play and plays per game
RatedFootballRow(sport, k) ==
    WithDefined([EmptyRow EXCEPT
        !["offensivePPP"] = Q(468 + 234 * k, 1000),
        !["defensivePPP"] = Q(468 - 234 * k, 1000),
        !["yardsPerPlay"] = Q(55 + 4 * k, 10),
        !["opponentYardsPerPlay"] = Q(53 - 3 * k, 10),
        !["playsPerGame"] = N(BasePace(sport) + 4 * k),
        !["strengthOfSchedule"] = Q(38 + 4 * k, 10)], TRUE)

\* a football row that has yards per play but no points per play
YardsOnlyFootballRow(sport, k) ==
    WithDefined([EmptyRow EXCEPT
        !["yardsPerPlay"] = Q(55 + 4 * k, 10),
        !["opponentYardsPerPlay"] = Q(53 - 3 * k, 10),
        !["playsPerGame"] = N(BasePace(sport) + 4 * k)], TRUE)

\* a row whose efficiency inputs are present with value 0
ZeroRow ==
    WithDefined([EmptyRow EXCEPT
        !["offensivePPP"] = N(0),
        !["defensivePPP"] = N(0),
        !["offensiveRating"] = N(0),
        !["defensiveRating"] = N(0),
        !["pace"] = N(0),
        !["playsPerGame"] = N(66),
        !["strengthOfSchedule"] = N(0)], TRUE)

\* a row that exists but holds no numbers
BareRow == WithDefined(EmptyRow, TRUE)

Levels == 0 .. MaxLevel

Rows(sport) ==
    IF IsFootball(sport)
    THEN {RatedFootballRow(sport, k) : k \in Levels} \cup {YardsOnlyFootballRow(sport, k) : k \in Levels}
         \cup {ZeroRow, BareRow}
    ELSE {RatedBasketballRow(sport, k) : k \in Levels} \cup {FractionBasketballRow(sport, k) : k \in Levels}
         \cup {ZeroRow, BareRow}

RowsOrUndefined(sport) == Rows(sport) \cup {Undefined}

-----------------------------------------------------------------------------
(* Idle values of the variables a specification does not use *)

NoReturn == <<>>
NoGame == [id |-> 0, sport |-> "NFL", isNeutralSite |-> FALSE,
           awayTeamName |-> "", homeTeamName |-> ""]
NoAwayTeamStats == [away |-> Undefined, season |-> Undefined, recent |-> Undefined]
NoHomeTeamStats == [home |-> Undefined, season |-> Undefined, recent |-> Undefined]
NoOptions == [homeRestDays |-> NULL, awayRestDays |-> NULL, isAwayTeamTraveling |-> TRUE]
NoProjection == <<>>

ProjectionIdle ==
    /\ game = NoGame
    /\ awayTeamStats = NoAwayTeamStats
    /\ homeTeamStats = NoHomeTeamStats
    /\ options = NoOptions
    /\ projection = NoProjection
    /\ currentSpread = NULL
    /\ currentTotal = NULL
    /\ opportunities = <<>>
    /\ teamStatsTable = <<>>
    /\ oddsTable = <<>>
    /\ projectionsTable = <<>>
    /\ opportunitiesTable = <<>>
    /\ upserts = <<>>

-----------------------------------------------------------------------------
(* SpecBlend: blendTeamStats called on every combination of catalogue rows *)

InitBlend ==
    /\ pc = "call"
    /\ ret = NoReturn
    /\ \E sport \in Sports :
         \E h \in RowsOrUndefined(sport), a \in {Undefined, BareRow},
            s \in RowsOrUndefined(sport), r \in RowsOrUndefined(sport) :
           args = [sport |-> sport, homeStats |-> h, awayStats |-> a,
                   seasonStats |-> s, recentStats |-> r]
    /\ ProjectionIdle

CallBlendTeamStats ==
    /\ pc = "call"
    /\ ret' = blendTeamStats(args.homeStats, args.awayStats, args.seasonStats,
                             args.recentStats, args.sport)
    /\ pc' = "done"
    /\ UNCHANGED <<args, projVars, dbVars>>

SpecBlend == InitBlend /\ [][CallBlendTeamStats]_vars

-----------------------------------------------------------------------------
(* SpecPace: calculateExpectedPossessions called on every pair of paces *)

InitPace ==
    /\ pc = "call"
    /\ ret = NoReturn
    /\ LET PaceValues == {Q(184 + k, 2) : k \in 0 .. MaxPaceSteps}
       IN  args \in [sport : Sports, awayPace : PaceValues, homePace : PaceValues]
    /\ ProjectionIdle

CallCalculateExpectedPossessions ==
    /\ pc = "call"
    /\ ret' = calculateExpectedPossessions(args.awayPace, args.homePace, args.sport)
    /\ pc' = "done"
    /\ UNCHANGED <<args, projVars, dbVars>>

SpecPace == InitPace /\ [][CallCalculateExpectedPossessions]_vars

-----------------------------------------------------------------------------
(* SpecVolatility: calculateVolatility called on the fields of the metrics  *)
(* it reads, a projected margin, a Four Factors edge and a rest adjustment  *)

InitVolatility ==
    LET \* strengthOfSchedule, pace and effectiveFieldGoalPct of a TeamMetrics
        VolatilityMetrics(sos, pace, efg) ==
            [strengthOfSchedule |-> sos, pace |-> pace, effectiveFieldGoalPct |-> efg]
        MarginValues == {N(k) : k \in (0 - MaxMargin) .. MaxMargin}
        VolatilityFourFactors ==
            {NoFourFactors} \cup {<<[totalEdge |-> e]>> : e \in {N(0), Q(25, 10), Q(-25, 10)}}
        \* the adjustments calculateRestAdjustment returns for no rest data, a
        \* home back-to-back in the NBA and in CBB, and an away back-to-back on
        \* the road against a rested home team
        RestAdjustments ==
            {[home |-> N(0), away |-> N(0)],
             [home |-> REST_ADJUSTMENTS["NBA"].backToBack, away |-> N(0)],
             [home |-> REST_ADJUSTMENTS["CBB"].backToBack, away |-> N(0)],
             [home |-> REST_ADJUSTMENTS["NBA"].extraRest,
              away |-> REST_ADJUSTMENTS["NBA"].backToBackAway]}
    IN
    /\ pc = "call"
    /\ ret = NoReturn
    /\ \E awaySos \in {N(0), N(3), N(5)}, awayPace \in {N(100), N(106), N(108)},
          awayEfg \in {NULL, N(50)}, homeEfg \in {NULL, N(52)},
          marginDiff \in MarginValues, sport \in Sports,
          ff \in VolatilityFourFactors, restAdj \in RestAdjustments :
         args = [awayMetrics |-> VolatilityMetrics(awaySos, awayPace, awayEfg),
                 homeMetrics |-> VolatilityMetrics(N(0), N(100), homeEfg),
                 marginDiff |-> marginDiff,
                 sport |-> sport,
                 fourFactorsEdge |-> ff,
                 restAdj |-> restAdj]
    /\ ProjectionIdle

CallCalculateVolatility ==
    /\ pc = "call"
    /\ ret' = calculateVolatility(args.awayMetrics, args.homeMetrics, args.marginDiff,
                                  args.sport, args.fourFactorsEdge, args.restAdj)
    /\ pc' = "done"
    /\ UNCHANGED <<args, projVars, dbVars>>

SpecVolatility == InitVolatility /\ [][CallCalculateVolatility]_vars

-----------------------------------------------------------------------------
(* SpecConfidence: getConfidenceEnhanced called on two edge percentages,    *)
(* edgeLo <= edgeHi, with the other arguments the same                      *)

InitConfidence ==
    LET EdgeValues == {Q(k, 2) : k \in 0 .. MaxEdgeHalves}
        VolatilityValues == {40 + 5 * k : k \in 0 .. MaxVolSteps}
        FourFactorsValues ==
            {NoFourFactors}
            \cup {<<[totalEdge |-> e]>> : e \in {N(0), N(1), Q(15, 10), N(-2)}}
    IN
    /\ pc = "call"
    /\ ret = NoReturn
    /\ \E lo \in EdgeValues, hi \in EdgeValues, v \in VolatilityValues,
          ff \in FourFactorsValues, k \in 0 .. MaxKillSwitches, sport \in Sports :
         /\ Le(lo, hi)
         /\ args = [edgeLo |-> lo, edgeHi |-> hi, volatility |-> v,
                    fourFactorsEdge |-> ff, killSwitchCount |-> k, sport |-> sport]
    /\ ProjectionIdle

CallGetConfidenceEnhanced ==
    /\ pc = "call"
    /\ ret' = [lo |-> getConfidenceEnhanced(args.edgeLo, args.volatility,
                          args.fourFactorsEdge, args.killSwitchCount, args.sport),
               hi |-> getConfidenceEnhanced(args.edgeHi, args.volatility,
                          args.fourFactorsEdge, args.killSwitchCount, args.sport)]
    /\ pc' = "done"
    /\ UNCHANGED <<args, projVars, dbVars>>

SpecConfidence == InitConfidence /\ [][CallGetConfidenceEnhanced]_vars

-----------------------------------------------------------------------------
(* SpecRlm: detectRlm called on lists that hold a latest observation of the *)
(* market, older ones before or after it in the list, and other markets'    *)

OtherMarket(m) == IF m = "spread" THEN "total" ELSE "spread"
SidesOf(m) == IF m = "spread" THEN {"home", "away"} ELSE {"over", "under"}

BaseLine == Q(-35, 10)
LatestAt == MaxOlder + 1
NewerAt == MaxOlder + 2

\* an observation that would fire strongly if it were taken for the latest
DecoyPct(m, at) ==
    [marketType |-> m, side |-> IF m = "spread" THEN "home" ELSE "over",
     ticketPercentage |-> N(80), moneyPercentage |-> N(20), capturedAt |-> at]

PctLists(m, main) ==
    LET \* n older (or equally old) observations of the market
        OlderPcts(k, at) == [i \in 1 .. k |-> DecoyPct(m, IF at = LatestAt THEN at ELSE i)]
        mains == {<<main>>}
                 \cup {OlderPcts(n, at) \o <<main>> :
                           n \in 1 .. MaxOlder, at \in {1, LatestAt}}
                 \cup {<<main>> \o OlderPcts(n, at) :
                           n \in 1 .. MaxOlder, at \in {1, LatestAt}}
    IN  mains \cup {l \o <<DecoyPct(OtherMarket(m), NewerAt)>> : l \in mains}
              \cup {<<DecoyPct(OtherMarket(m), NewerAt)>>}

Movement(m, from, to, at) ==
    [marketType |-> m, previousValue |-> from, currentValue |-> to, capturedAt |-> at]

\* the line goes from BaseLine to BaseLine + delta in n + 1 movements
RECURSIVE MoveChain(_, _, _)
MoveChain(m, n, delta) ==
    IF n = 0 THEN <<Movement(m, BaseLine, Add(BaseLine, delta), LatestAt)>>
    ELSE <<Movement(m, Add(BaseLine, N(n)), Add(BaseLine, N(n - 1)), LatestAt - n)>>
         \o (IF n = 1
             THEN <<Movement(m, Add(BaseLine, N(0)), Add(BaseLine, delta), LatestAt)>>
             ELSE MoveChain(m, n - 1, delta))

MoveLists(m) ==
    LET \* cumulative line movement in tenths of a point
        MoveTenths == {-16, -10, -5, -4, 0, 4, 5, 9, 10, 14, 15, 16}
        Reverse(seq) == [i \in 1 .. Len(seq) |-> seq[Len(seq) + 1 - i]]
        chains == UNION {{MoveChain(m, n, Q(t, 10)), Reverse(MoveChain(m, n, Q(t, 10)))} :
                            n \in 0 .. MaxOlder, t \in MoveTenths}
        other == Movement(OtherMarket(m), N(210), N(213), NewerAt)
    IN  chains \cup {<<other>> \o c : c \in chains} \cup {<<other>>}

InitRlm ==
    LET Markets == {"spread", "total"}
        TicketValues == {N(45), N(59), N(60), N(64), N(65), N(69), N(70)}
        MoneyValues == {N(35), N(49), N(50), N(55), N(81)}
    IN
    /\ pc = "call"
    /\ ret = NoReturn
    /\ \E m \in Markets :
         \E side \in SidesOf(m), t \in TicketValues, mo \in MoneyValues :
           \E pcts \in PctLists(m, [marketType |-> m, side |-> side,
                                    ticketPercentage |-> t, moneyPercentage |-> mo,
                                    capturedAt |-> LatestAt]),
              moves \in MoveLists(m) :
             args = [bettingPcts |-> pcts, lineMovements |-> moves, marketType |-> m]
    /\ ProjectionIdle

CallDetectRlm ==
    /\ pc = "call"
    /\ ret' = detectRlm(args.bettingPcts, args.lineMovements, args.marketType)
    /\ pc' = "done"
    /\ UNCHANGED <<args, projVars, dbVars>>

SpecRlm == InitRlm /\ [][CallDetectRlm]_vars

-----------------------------------------------------------------------------
(* SpecHandle: analyzeHandleSplit called on every pair of percentages *)

InitHandle ==
    /\ pc = "call"
    /\ ret = NoReturn
    /\ LET HandleValues == {N(30 + 5 * k) : k \in 0 .. MaxHandleSteps}
       IN  args \in [ticketPct : HandleValues, moneyPct : HandleValues]
    /\ ProjectionIdle

CallAnalyzeHandleSplit ==
    /\ pc = "call"
    /\ ret' = analyzeHandleSplit(args.ticketPct, args.moneyPct)
    /\ pc' = "done"
    /\ UNCHANGED <<args, projVars, dbVars>>

SpecHandle == InitHandle /\ [][CallAnalyzeHandleSplit]_vars

-----------------------------------------------------------------------------
(* SpecUpsert: callers of DatabaseStorage.upsertTeamStats, each upserting   *)
(* the rows of its batch one after the other; a call is a SELECT followed   *)
(* by an UPDATE or an INSERT, and the calls of different callers interleave *)

Callers == 1 .. MaxCallers

\* the InsertTeamStats a caller upserts: the home or away split of one NBA
\* team from the given source, its numeric columns those of a catalogue row
InsertTeamStats(splitType, source, level) ==
    [teamName |-> "Lakers", sport |-> "NBA", splitType |-> splitType, source |-> source,
     stats |-> RatedBasketballRow("NBA", level)]

\* a batch: up to MaxBatch rows of one source, the splits alternating
RECURSIVE Batch(_, _, _, _)
Batch(n, splitType, source, level) ==
    IF n = 0 THEN <<>>
    ELSE <<InsertTeamStats(splitType, source, level)>>
         \o Batch(n - 1, IF splitType = "home" THEN "away" ELSE "home", source, level)

Batches ==
    {Batch(n, split, source, level) :
        n \in 1 .. MaxBatch, split \in {"home", "away"},
        source \in {"excel", "teamrankings"}, level \in Levels}

\* the rows of the table with the key of an InsertTeamStats
SameKey(table, stats) ==
    {i \in 1 .. Len(table) :
        /\ table[i].teamName = stats.teamName
        /\ table[i].sport = stats.sport
        /\ table[i].splitType = stats.splitType
        /\ table[i].source = stats.source}

\* new Date(): later than every capturedAt of the table
Now(table) ==
    1 + (IF table = <<>> THEN 0
         ELSE CHOOSE t \in {table[i].capturedAt : i \in 1 .. Len(table)} :
                  \A i \in 1 .. Len(table) : table[i].capturedAt <= t)

\* db.insert(teamStats).values(stats): the serial id is the next one
createTeamStats(table, stats) ==
    Append(table, [id |-> Len(table) + 1, teamName |-> stats.teamName,
                   sport |-> stats.sport, splitType |-> stats.splitType,
                   source |-> stats.source, stats |-> stats.stats,
                   capturedAt |-> Now(table)])

\* db.update(teamStats).set({...stats, capturedAt: new Date()}).where(id = ...)
UpdateTeamStats(table, id, stats) ==
    [i \in 1 .. Len(table) |->
        IF table[i].id = id
        THEN [table[i] EXCEPT !.teamName = stats.teamName, !.sport = stats.sport,
                              !.splitType = stats.splitType, !.source = stats.source,
                              !.stats = stats.stats, !.capturedAt = Now(table)]
        ELSE table[i]]

InitUpsert ==
    /\ pc = "serving"
    /\ args = <<>>
    /\ ret = NoReturn
    /\ game = NoGame
    /\ awayTeamStats = NoAwayTeamStats
    /\ homeTeamStats = NoHomeTeamStats
    /\ options = NoOptions
    /\ projection = NoProjection
    /\ currentSpread = NULL
    /\ currentTotal = NULL
    /\ opportunities = <<>>
    /\ teamStatsTable \in {<<>>, createTeamStats(<<>>, InsertTeamStats("home", "excel", 0))}
    /\ oddsTable = <<>>
    /\ projectionsTable = <<>>
    /\ opportunitiesTable = <<>>
    /\ upserts \in [Callers -> {[pc |-> "select", queue |-> b, existing |-> <<>>] :
                                   b \in Batches}]

\* upsertTeamStats up to the await of the SELECT ... LIMIT 1: any one of the
\* rows with the key, there is no ORDER BY
UpsertSelect(c) ==
    /\ upserts[c].pc = "select"
    /\ LET stats == Head(upserts[c].queue)
       IN  \/ /\ SameKey(teamStatsTable, stats) = {}
              /\ upserts' = [upserts EXCEPT ![c].existing = <<>>, ![c].pc = "write"]
           \/ \E i \in SameKey(teamStatsTable, stats) :
                upserts' = [upserts EXCEPT ![c].existing = <<teamStatsTable[i].id>>,
                                           ![c].pc = "write"]
    /\ UNCHANGED <<pc, args, ret, projVars, teamStatsTable, oddsTable, projectionsTable,
                   opportunitiesTable>>

\* the rest of upsertTeamStats: UPDATE the row found or INSERT a new one;
\* the caller's loop then goes on to the next row of its batch
UpsertWrite(c) ==
    /\ upserts[c].pc = "write"
    /\ LET stats == Head(upserts[c].queue)
           rest == Tail(upserts[c].queue)
       IN  /\ teamStatsTable' =
                  IF Len(upserts[c].existing) > 0
                  THEN UpdateTeamStats(teamStatsTable, upserts[c].existing[1], stats)
                  ELSE createTeamStats(teamStatsTable, stats)
           /\ upserts' = [upserts EXCEPT ![c].queue = rest, ![c].existing = <<>>,
                                         ![c].pc = IF rest = <<>> THEN "done" ELSE "select"]
    /\ UNCHANGED <<pc, args, ret, projVars, oddsTable, projectionsTable, opportunitiesTable>>

NextUpsert == \E c \in Callers : UpsertSelect(c) \/ UpsertWrite(c)

SpecUpsert == InitUpsert /\ [][NextUpsert]_vars

-----------------------------------------------------------------------------
(* SpecBacktest: runBacktest on one game and up to MaxOpps opportunities    *)
(* rows of that game                                                        *)

BacktestOpportunity(marketType, side, currentLine, confidence, edgePercentage, isRlm) ==
    [gameId |-> 1, marketType |-> marketType, side |-> side, currentLine |-> currentLine,
     confidence |-> confidence, edgePercentage |-> edgePercentage,
     isReverseLineMovement |-> isRlm, status |-> "active"]

\* spread rows on both sides at the favourite's and the underdog's line, a
\* line that pushes on a ten-point margin, a row without line or edge; totals
\* around 210; first-half rows on both sides
BacktestOpportunities ==
    {BacktestOpportunity("spread", "home", N(-7), "High", N(5), FALSE),
     BacktestOpportunity("spread", "away", N(7), "Medium", N(3), TRUE),
     BacktestOpportunity("spread", "home", N(-10), "Lean", N(2), FALSE),
     BacktestOpportunity("spread", "home", N(3), "Lean", N(2), FALSE),
     BacktestOpportunity("spread", "away", N(3), "Lean", N(2), FALSE),
     BacktestOpportunity("spread", "away", NULL, "Lean", NULL, FALSE),
     BacktestOpportunity("total", "over", Q(2055, 10), "High", N(5), TRUE),
     BacktestOpportunity("total", "under", Q(2055, 10), "Medium", N(3), FALSE),
     BacktestOpportunity("total", "over", N(210), "Lean", N(1), FALSE),
     BacktestOpportunity("1h", "home", Q(-19, 10), "Medium", N(4), FALSE),
     BacktestOpportunity("1h", "away", Q(-19, 10), "Medium", N(4), FALSE)}

\* the tables of up to n rows, the ids in insertion order
RECURSIVE OpportunityTables(_)
OpportunityTables(n) ==
    IF n = 0 THEN {<<>>}
    ELSE OpportunityTables(n - 1)
         \cup {Append(t, o @@ [id |-> n]) :
                   t \in {u \in OpportunityTables(n - 1) : Len(u) = n - 1},
                   o \in BacktestOpportunities}

\* an NBA game on day 2: final 110-100, 100-110 or 101-100, final without
\* scores, or not yet played
BacktestGames ==
    {[id |-> 1, sport |-> "NBA", gameDate |-> 2, status |-> "final",
      homeScore |-> <<s[1]>>, awayScore |-> <<s[2]>>] :
         s \in {<<110, 100>>, <<100, 110>>, <<101, 100>>}}
    \cup {[id |-> 1, sport |-> "NBA", gameDate |-> 2, status |-> "final",
           homeScore |-> <<>>, awayScore |-> <<>>],
          [id |-> 1, sport |-> "NBA", gameDate |-> 2, status |-> "scheduled",
           homeScore |-> <<>>, awayScore |-> <<>>]}

\* no filter, then one filter at a time
BacktestConfigs ==
    LET AllSignals ==
            [sport |-> "ALL", signalType |-> "all", dateFrom |-> 1, dateTo |-> 3,
             minEdge |-> NULL, minConfidence |-> ""]
    IN  {AllSignals,
         [AllSignals EXCEPT !.sport = "NBA"],
         [AllSignals EXCEPT !.sport = "NFL"],
         [AllSignals EXCEPT !.signalType = "rlm"],
         [AllSignals EXCEPT !.signalType = "high_confidence"],
         [AllSignals EXCEPT !.dateTo = 1],
         [AllSignals EXCEPT !.minEdge = N(3)],
         [AllSignals EXCEPT !.minConfidence = "Medium"]}

InitBacktest ==
    /\ pc = "call"
    /\ ret = NoReturn
    /\ args \in BacktestConfigs
    /\ game \in BacktestGames
    /\ awayTeamStats = NoAwayTeamStats
    /\ homeTeamStats = NoHomeTeamStats
    /\ options = NoOptions
    /\ projection = NoProjection
    /\ currentSpread = NULL
    /\ currentTotal = NULL
    /\ opportunities = <<>>
    /\ teamStatsTable = <<>>
    /\ oddsTable = <<>>
    /\ projectionsTable = <<>>
    /\ opportunitiesTable \in OpportunityTables(MaxOpps)
    /\ upserts = <<>>

RunBacktest ==
    /\ pc = "call"
    /\ ret' = runBacktest(args, game, opportunitiesTable)
    /\ pc' = "done"
    /\ UNCHANGED <<args, projVars, dbVars>>

SpecBacktest == InitBacktest /\ [][RunBacktest]_vars

-----------------------------------------------------------------------------
(* SpecPipeline: the game step of runFullPipeline and the handler of POST   *)
(* /api/projections/generate/:gameId, run up to MaxRuns times on one game   *)
(* whose team-stats rows and odds rows do not change                        *)

oddsToProbability(americanOdds) ==
    IF americanOdds < 0
    THEN Q(Abs(americanOdds), Abs(americanOdds) + 100)
    ELSE Q(100, americanOdds + 100)

calculateEdgePercentage(marketLine, fairLine, marketType, sport, americanOdds) ==
    LET diff == AbsQ(Sub(marketLine, fairLine))
        pointValues == [NFL |-> Q(1, 100), NBA |-> Q(1, 100),
                        CFB |-> Q(8, 1000), CBB |-> Q(8, 1000)]
        pointValue == IF marketType = "spread" THEN pointValues[sport] ELSE Q(4, 1000)
        coverProb == MinQ(Q(95, 100), MaxQ(Q(5, 100), Add(Q(1, 2), Mul(pointValue, diff))))
        impliedProb == oddsToProbability(americanOdds)
        edge == Mul(Sub(coverProb, impliedProb), N(100))
    IN  MinQ(N(15), MaxQ(N(0), edge))

determineSpreadSide(marketSpread, fairSpread) ==
    LET diff == Sub(fairSpread, marketSpread)
    IN  IF Gt(diff, N(0)) THEN [side |-> "home", edge |-> diff]
        ELSE [side |-> "away", edge |-> Neg(diff)]

determineTotalSide(marketTotal, fairTotal) ==
    LET diff == Sub(marketTotal, fairTotal)
    IN  IF Gt(diff, Q(1, 2)) THEN [side |-> "under", edge |-> diff]
        ELSE [side |-> "over", edge |-> Neg(diff)]

\* the three Math.random() draws are r1, r2, r3, each in [0, 1)
generateMockProjection(gm, r1, r2, r3) ==
    LET baseTotal == IF IsFootball(gm.sport) THEN N(45) ELSE N(215)
        variance == IF IsFootball(gm.sport) THEN N(8) ELSE N(15)
        projectedTotal == Add(baseTotal, Mul(Mul(Sub(r1, Q(1, 2)), variance), N(2)))
        margin == Mul(Sub(r2, Q(1, 2)), N(10))
        projectedHomeScore == Div(Add(projectedTotal, margin), N(2))
        projectedAwayScore == Div(Sub(projectedTotal, margin), N(2))
        \* Math.floor of a rational
        MathFloor(a) == a[1] \div a[2]
    IN  [projectedAwayScore |-> Round1(projectedAwayScore),
         projectedHomeScore |-> Round1(projectedHomeScore),
         projectedTotal |-> Round1(projectedTotal),
         projectedMargin |-> Round1(margin),
         fairSpread |-> Round1(Neg(margin)),
         fairTotal |-> Round1(projectedTotal),
         volatilityScore |-> MathFloor(Mul(r3, N(40))) + 30,
         drivers |-> <<[text |-> "home advantage", team |-> gm.homeTeamName],
                       [text |-> "Historical trends favor this matchup"],
                       [text |-> "Recent form analysis"]>>]

\* the numeric columns of the first row of the table for the team, sport and
\* split, or undefined; the names of the rows are those of the game, which
\* every name variant of findTeamStats matches
findTeamStats(table, teamName, sport, splitType) ==
    LET found == {i \in 1 .. Len(table) :
                     /\ table[i].teamName = teamName
                     /\ table[i].sport = sport
                     /\ table[i].splitType = splitType}
    IN  IF found = {} THEN Undefined
        ELSE table[CHOOSE i \in found : \A j \in found : i <= j].stats

\* the columns a projections row gets from both writers
ProjectionRow(id, gameId, algorithmVersion, proj) ==
    [id |-> id,
     gameId |-> gameId,
     algorithmVersion |-> algorithmVersion,
     projectedAwayScore |-> proj.projectedAwayScore,
     projectedHomeScore |-> proj.projectedHomeScore,
     projectedTotal |-> proj.projectedTotal,
     projectedMargin |-> proj.projectedMargin,
     fairSpread |-> proj.fairSpread,
     fairTotal |-> proj.fairTotal,
     volatilityScore |-> proj.volatilityScore,
     drivers |-> proj.drivers]

\* the algorithmVersion runFullPipeline writes
PipelineVersion(sport) ==
    [NFL |-> "NFL v4.0R1", NBA |-> "NBA v3.5R1", CFB |-> "CFB v3.5R1", CBB |-> "CBB v3.5R1"][sport]

ALGORITHM_VERSIONS ==
    [NFL |-> "NFL v4.1R1", NBA |-> "NBA v4.0R1", CFB |-> "CFB v4.0R1", CBB |-> "CBB v4.0R1"]

\* the latest odds row of the game (greatest capturedAt), or none
LatestOdds == IF oddsTable = <<>> THEN <<>> ELSE <<oddsTable[Len(oddsTable)]>>

\* marketSpread and marketTotal of runFullPipeline: a null or zero column
\* counts as absent
PipelineMarketSpread(latestOdds) ==
    IF latestOdds = <<>> THEN NULL
    ELSE IF Truthy(latestOdds[1].spreadHome) THEN latestOdds[1].spreadHome
    ELSE IF Truthy(latestOdds[1].spreadAway) THEN Neg(latestOdds[1].spreadAway)
    ELSE NULL

PipelineMarketTotal(latestOdds) ==
    IF latestOdds = <<>> THEN NULL
    ELSE IF Truthy(latestOdds[1].totalOver) THEN latestOdds[1].totalOver
    ELSE NULL

\* odds || -110 of an integer column that is 0 when null
OddsOr110(americanOdds) == IF americanOdds = 0 THEN -110 ELSE americanOdds

\* the opportunities row of the spread market, if the edge is above 1
PipelineSpreadRow(gm, projectionId, proj, latestOdds, isRlm) ==
    LET marketSpread == PipelineMarketSpread(latestOdds)
    IN  IF marketSpread = NULL THEN <<>>
        ELSE
        LET spreadResult == determineSpreadSide(marketSpread, proj.fairSpread)
            spreadOdds == OddsOr110(latestOdds[1].spreadHomeOdds)
            edgePct == calculateEdgePercentage(marketSpread, proj.fairSpread, "spread",
                                               gm.sport, spreadOdds)
            confidence == IF Gt(edgePct, N(4)) THEN "High"
                          ELSE IF Gt(edgePct, Q(25, 10)) THEN "Medium" ELSE "Lean"
            displayLine == IF spreadResult.side = "home" THEN marketSpread
                           ELSE Neg(marketSpread)
        IN  IF Gt(edgePct, N(1))
            THEN <<[gameId |-> gm.id,
                    projectionId |-> projectionId,
                    sport |-> gm.sport,
                    marketType |-> "spread",
                    side |-> spreadResult.side,
                    currentLine |-> displayLine,
                    currentOdds |-> spreadOdds,
                    fairLine |-> proj.fairSpread,
                    edgePercentage |-> edgePct,
                    confidence |-> confidence,
                    volatilityScore |-> proj.volatilityScore,
                    isReverseLineMovement |-> isRlm,
                    drivers |-> IF isRlm THEN Append(proj.drivers, [text |-> "RLM detected"])
                                ELSE proj.drivers,
                    killSwitches |-> <<>>,
                    status |-> "active"]>>
            ELSE <<>>

\* the opportunities row of the total market, if the edge is above 0.5
PipelineTotalRow(gm, projectionId, proj, latestOdds, isRlm) ==
    LET marketTotal == PipelineMarketTotal(latestOdds)
    IN  IF marketTotal = NULL THEN <<>>
        ELSE
        LET totalResult == determineTotalSide(marketTotal, proj.fairTotal)
            totalOdds == OddsOr110(latestOdds[1].totalOverOdds)
            edgePct == calculateEdgePercentage(marketTotal, proj.fairTotal, "total",
                                               gm.sport, totalOdds)
            confidence == IF Gt(edgePct, N(3)) THEN "Medium" ELSE "Lean"
            projected == [text |-> "Projected total", value |-> proj.projectedTotal]
        IN  IF Gt(edgePct, Q(1, 2))
            THEN <<[gameId |-> gm.id,
                    projectionId |-> projectionId,
                    sport |-> gm.sport,
                    marketType |-> "total",
                    side |-> totalResult.side,
                    currentLine |-> marketTotal,
                    currentOdds |-> totalOdds,
                    fairLine |-> proj.fairTotal,
                    edgePercentage |-> edgePct,
                    confidence |-> confidence,
                    volatilityScore |-> proj.volatilityScore,
                    isReverseLineMovement |-> isRlm,
                    drivers |-> IF isRlm THEN <<projected, [text |-> "RLM detected"]>>
                                ELSE <<projected>>,
                    killSwitches |-> <<>>,
                    status |-> "active"]>>
            ELSE <<>>

\* db.insert(opportunities): the rows get the next serial ids
InsertOpportunities(table, rows) ==
    table \o [i \in 1 .. Len(rows) |-> rows[i] @@ [id |-> Len(table) + i]]

OddsRow(spreadHome, spreadAway, spreadHomeOdds, totalOver, isOpening) ==
    [spreadHome |-> spreadHome, spreadAway |-> spreadAway,
     spreadHomeOdds |-> spreadHomeOdds, totalOver |-> totalOver, totalOverOdds |-> 0,
     isOpening |-> isOpening]

\* no odds row; both lines at the default price; the spread on the away side
\* only at +150; a four-point home favourite at +150; an opening row at other
\* lines before the latest row.  The market lines of the rows are a touchdown
\* spread and a total near the league's scoring.
OddsTables(sport) ==
    LET SampleTotal == IF IsFootball(sport) THEN Q(415, 10) ELSE Q(2205, 10)
    IN  {<<>>,
         <<OddsRow(N(-7), N(7), 0, SampleTotal, FALSE)>>,
         <<OddsRow(NULL, N(3), 150, NULL, FALSE)>>,
         <<OddsRow(N(-4), N(4), 150, NULL, FALSE)>>,
         <<OddsRow(N(-6), N(6), 0, Sub(SampleTotal, N(1)), TRUE),
           OddsRow(N(-7), N(7), 0, SampleTotal, FALSE)>>}

\* no team-stats rows, or the home split of the home team and the away split
\* of the away team
TeamStatsTables(gm) ==
    {<<>>,
     <<[id |-> 1, teamName |-> gm.homeTeamName, sport |-> gm.sport, splitType |-> "home",
        source |-> "excel", capturedAt |-> 1,
        stats |-> IF IsFootball(gm.sport) THEN RatedFootballRow(gm.sport, 1)
                  ELSE RatedBasketballRow(gm.sport, 1)],
       [id |-> 2, teamName |-> gm.awayTeamName, sport |-> gm.sport, splitType |-> "away",
        source |-> "excel", capturedAt |-> 2,
        stats |-> IF IsFootball(gm.sport) THEN RatedFootballRow(gm.sport, 0)
                  ELSE RatedBasketballRow(gm.sport, 0)]>>}

InitPipeline ==
    /\ pc = "serving"
    /\ args = <<>>
    /\ ret = NoReturn
    /\ \E sport \in Sports :
         game = [id |-> 1, sport |-> sport, isNeutralSite |-> FALSE,
                 awayTeamName |-> "Celtics", homeTeamName |-> "Lakers"]
    /\ awayTeamStats = NoAwayTeamStats
    /\ homeTeamStats = NoHomeTeamStats
    /\ options = NoOptions
    /\ projection = NoProjection
    /\ currentSpread = NULL
    /\ currentTotal = NULL
    /\ opportunities = <<>>
    /\ teamStatsTable \in TeamStatsTables(game)
    /\ oddsTable \in OddsTables(game.sport)
    /\ projectionsTable = <<>>
    /\ opportunitiesTable = <<>>
    /\ upserts = <<>>

\* runFullPipeline, steps 3 and 4 for the game: the projection from the
\* team-stats rows found, or the mock projection when there is none; the
\* projections row; the spread and total rows. detectRlmFromLines is not
\* part of the sources: each of its two results is either outcome.
RunFullPipeline ==
    /\ pc = "serving"
    /\ Len(projectionsTable) < MaxRuns
    /\ LET homeStats == findTeamStats(teamStatsTable, game.homeTeamName, game.sport, "home")
           awayStats == findTeamStats(teamStatsTable, game.awayTeamName, game.sport, "away")
           homeSeasonStats ==
               findTeamStats(teamStatsTable, game.homeTeamName, game.sport, "season")
           awaySeasonStats ==
               findTeamStats(teamStatsTable, game.awayTeamName, game.sport, "season")
           projectionId == Len(projectionsTable) + 1
           \* Math.random() draws of the model
           RandomValues == {Q(1, 10), Q(9, 10)}
       IN  \E proj \in
               IF \/ homeStats.defined \/ awayStats.defined
                  \/ homeSeasonStats.defined \/ awaySeasonStats.defined
               THEN {generateProjection(game,
                         [away |-> awayStats, season |-> awaySeasonStats,
                          recent |-> Undefined],
                         [home |-> homeStats, season |-> homeSeasonStats,
                          recent |-> Undefined],
                         NoOptions)}
               ELSE {generateMockProjection(game, r1, r2, r3) :
                         r1 \in RandomValues, r2 \in RandomValues, r3 \in RandomValues} :
             \E spreadRlm \in BOOLEAN, totalRlm \in BOOLEAN :
               /\ projectionsTable' =
                      Append(projectionsTable,
                             ProjectionRow(projectionId, game.id,
                                           PipelineVersion(game.sport), proj))
               /\ opportunitiesTable' =
                      InsertOpportunities(opportunitiesTable,
                          PipelineSpreadRow(game, projectionId, proj, LatestOdds, spreadRlm)
                          \o PipelineTotalRow(game, projectionId, proj, LatestOdds, totalRlm))
    /\ UNCHANGED <<pc, args, ret, projVars, teamStatsTable, oddsTable, upserts>>

\* POST /api/projections/generate/:gameId for the game
PostProjectionsGenerate ==
    /\ pc = "serving"
    /\ Len(projectionsTable) < MaxRuns
    /\ LET \* storage.getTeamStats({teamName, sport}) then
           \* .find(s => s.splitType === ...)
           StatsOfSplit(table, teamName, sport, splitType) ==
               findTeamStats(table, teamName, sport, splitType)
           recentOf(teamName) ==
               OrStats(StatsOfSplit(teamStatsTable, teamName, game.sport, "last5"),
                       StatsOfSplit(teamStatsTable, teamName, game.sport, "last3"))
           projectionId == Len(projectionsTable) + 1
           latestOdds == LatestOdds
       IN  \E projectionResult \in
               {generateProjection(game,
                    [away |-> StatsOfSplit(teamStatsTable, game.awayTeamName, game.sport,
                                           "away"),
                     season |-> StatsOfSplit(teamStatsTable, game.awayTeamName, game.sport,
                                             "season"),
                     recent |-> recentOf(game.awayTeamName)],
                    [home |-> StatsOfSplit(teamStatsTable, game.homeTeamName, game.sport,
                                           "home"),
                     season |-> StatsOfSplit(teamStatsTable, game.homeTeamName, game.sport,
                                             "season"),
                     recent |-> recentOf(game.homeTeamName)],
                    NoOptions)} :
             LET found == identifyOpportunities(game.id, game.sport, projectionResult,
                              IF latestOdds = <<>> THEN NULL
                              ELSE Or(latestOdds[1].spreadHome, NULL),
                              IF latestOdds = <<>> THEN NULL
                              ELSE Or(latestOdds[1].totalOver, NULL))
             IN  /\ projectionsTable' =
                        Append(projectionsTable,
                               ProjectionRow(projectionId, game.id,
                                             ALGORITHM_VERSIONS[game.sport],
                                             projectionResult))
                 /\ opportunitiesTable' =
                        InsertOpportunities(opportunitiesTable,
                            [i \in 1 .. Len(found) |->
                                found[i] @@ [projectionId |-> projectionId]])
    /\ UNCHANGED <<pc, args, ret, projVars, teamStatsTable, oddsTable, upserts>>

NextPipeline == RunFullPipeline \/ PostProjectionsGenerate

SpecPipeline == InitPipeline /\ [][NextPipeline]_vars

-----------------------------------------------------------------------------
(* SpecDerive: identifyOpportunities called on two projections of one sport *)
(* and the same market lines; the second projection is that of another game *)
(* or the first one with other kill switches                                *)

\* the away and home rows of the games projected: in basketball the level-1
\* row at home against a row that differs from it in ratings and eFG% (2.0,
\* 2.5, 2.7 or 4.5 points below 54.5), or against no row; in football the
\* level-1 row at home against the level-0 row or no row
DeriveGames(sport) ==
    IF IsBasketball(sport)
    THEN {[away |-> a, home |-> RatedBasketballRow(sport, 1)] :
              a \in {ShootingRow(sport, t) : t \in {525, 520, 518, 500}} \cup {Undefined}}
    ELSE {[away |-> a, home |-> RatedFootballRow(sport, 1)] :
              a \in {RatedFootballRow(sport, 0), Undefined}}

DeriveProjections(sport) ==
    {generateProjection([id |-> 1, sport |-> sport, isNeutralSite |-> FALSE,
                         awayTeamName |-> "Away", homeTeamName |-> "Home"],
                        [away |-> g.away, season |-> Undefined, recent |-> Undefined],
                        [home |-> g.home, season |-> Undefined, recent |-> Undefined],
                        NoOptions) : g \in DeriveGames(sport)}

\* the lists of kill switches generateKillSwitches can return, by length
KillSwitchLists ==
    {<<>>,
     <<"High volatility with small edge">>,
     <<"Four Factors divergence detected", "Major rest disparity">>,
     <<"High volatility with small edge", "Four Factors divergence detected",
       "No Four Factors data">>}

\* market lines at a distance from the fair lines of a projection
DeriveLines(proj) ==
    {[spread |-> NULL, total |-> NULL],
     [spread |-> Add(proj.fairSpread, Q(35, 10)), total |-> Sub(proj.fairTotal, N(11))],
     [spread |-> Sub(proj.fairSpread, N(1)), total |-> Add(proj.fairTotal, N(2))],
     [spread |-> Add(proj.fairSpread, Q(9, 10)), total |-> Sub(proj.fairTotal, Q(19, 10))]}

InitDerive ==
    /\ pc = "call"
    /\ ret = NoReturn
    /\ \E sport \in Sports :
         \E projA \in DeriveProjections(sport) :
           \E projB \in DeriveProjections(sport)
                        \cup {[projA EXCEPT !.killSwitches = ks] : ks \in KillSwitchLists},
              lines \in DeriveLines(projA) :
             args = [sport |-> sport, projA |-> projA, projB |-> projB,
                     currentSpread |-> lines.spread, currentTotal |-> lines.total]
    /\ ProjectionIdle

CallIdentifyOpportunities ==
    /\ pc = "call"
    /\ ret' = [a |-> identifyOpportunities(1, args.sport, args.projA,
                                           args.currentSpread, args.currentTotal),
               b |-> identifyOpportunities(1, args.sport, args.projB,
                                           args.currentSpread, args.currentTotal)]
    /\ pc' = "done"
    /\ UNCHANGED <<args, projVars, dbVars>>

SpecDerive == InitDerive /\ [][CallIdentifyOpportunities]_vars

-----------------------------------------------------------------------------
(* Spec: generateProjection on a game, then identifyOpportunities on the    *)
(* projection and a pair of market lines                                    *)

PrimaryRows(sport) ==
    {Undefined} \cup
    (IF IsFootball(sport)
     THEN {RatedFootballRow(sport, k) : k \in Levels} \cup {YardsOnlyFootballRow(sport, 0)}
     ELSE {RatedBasketballRow(sport, k) : k \in Levels} \cup {FractionBasketballRow(sport, 0)})

SeasonRows(sport) ==
    {Undefined, IF IsFootball(sport) THEN RatedFootballRow(sport, 0)
                ELSE RatedBasketballRow(sport, 0)}

RecentRows(sport) ==
    {Undefined, IF IsFootball(sport) THEN RatedFootballRow(sport, MaxLevel)
                ELSE RatedBasketballRow(sport, MaxLevel)}

\* rest and travel: no rest days known, a back-to-back on one side (the away
\* team travelling or not), and a back-to-back against MaxRestDays days off
RestOptions ==
    {[homeRestDays |-> h, awayRestDays |-> NULL, isAwayTeamTraveling |-> TRUE] :
        h \in {NULL, N(0)}}
    \cup {[homeRestDays |-> NULL, awayRestDays |-> N(0), isAwayTeamTraveling |-> t] :
              t \in BOOLEAN}
    \cup {[homeRestDays |-> N(MaxRestDays), awayRestDays |-> N(0),
            isAwayTeamTraveling |-> TRUE],
           [homeRestDays |-> N(0), awayRestDays |-> N(MaxRestDays),
            isAwayTeamTraveling |-> TRUE]}

Init ==
    /\ pc = "start"
    /\ args = <<>>
    /\ ret = NoReturn
    /\ \E sport \in Sports, neutral \in BOOLEAN :
         game = [id |-> 1, sport |-> sport, isNeutralSite |-> neutral,
                 awayTeamName |-> "Away", homeTeamName |-> "Home"]
    /\ awayTeamStats \in [away : PrimaryRows(game.sport), season : SeasonRows(game.sport),
                          recent : RecentRows(game.sport)]
    /\ homeTeamStats \in [home : PrimaryRows(game.sport), season : SeasonRows(game.sport),
                          recent : {Undefined}]
    /\ options \in RestOptions
    /\ projection = NoProjection
    /\ currentSpread = NULL
    /\ currentTotal = NULL
    /\ opportunities = <<>>
    /\ teamStatsTable = <<>>
    /\ oddsTable = <<>>
    /\ projectionsTable = <<>>
    /\ opportunitiesTable = <<>>
    /\ upserts = <<>>

GenerateProjection ==
    /\ pc = "start"
    /\ projection' = <<generateProjection(game, awayTeamStats, homeTeamStats, options)>>
    /\ pc' = "projected"
    /\ UNCHANGED <<args, ret, game, awayTeamStats, homeTeamStats, options,
                   currentSpread, currentTotal, opportunities, dbVars>>

\* market lines: absent, a pick'em spread, a half-point spread, or at a
\* distance from the fair
\* lines just below, at and above the thresholds, and around the full-game
\* edge at which a first-half edge reaches 1.5; a market total is positive
LineOffsets ==
    {[spread |-> Q(-9, 10), total |-> Q(-19, 10)],
     [spread |-> N(-1), total |-> N(-2)],
     [spread |-> Q(9, 10), total |-> Q(19, 10)],
     [spread |-> N(1), total |-> N(2)],
     [spread |-> Q(-35, 10), total |-> N(0)],
     [spread |-> Q(35, 10), total |-> N(12)],
     [spread |-> Q(-33, 10), total |-> N(3)],
     [spread |-> Q(32, 10), total |-> N(-3)]}

MarketLines(proj) ==
    {[spread |-> NULL, total |-> NULL],
     [spread |-> N(0), total |-> NULL],
     [spread |-> Q(1, 2), total |-> NULL],
     [spread |-> Q(-1, 2), total |-> NULL],
     [spread |-> NULL, total |-> proj.fairTotal]}
    \cup {l \in {[spread |-> Add(proj.fairSpread, d.spread),
                   total |-> Add(proj.fairTotal, d.total)] : d \in LineOffsets} :
              Gt(l.total, N(0))}

IdentifyOpportunities ==
    /\ pc = "projected"
    /\ \E lines \in MarketLines(projection[1]) :
         /\ currentSpread' = lines.spread
         /\ currentTotal' = lines.total
         /\ opportunities' = identifyOpportunities(game.id, game.sport, projection[1],
                                                   lines.spread, lines.total)
    /\ pc' = "done"
    /\ UNCHANGED <<args, ret, game, awayTeamStats, homeTeamStats, options, projection,
                   dbVars>>

Next == GenerateProjection \/ IdentifyOpportunities

Spec == Init /\ [][Next]_vars

-----------------------------------------------------------------------------
(* Claims about generateProjection and identifyOpportunities (Spec) *)

Projected == projection # NoProjection

\* how far the rounded fair lines are from the rounded scores
SpreadGap ==
    AbsQ(Add(projection[1].fairSpread,
             Sub(projection[1].projectedHomeScore, projection[1].projectedAwayScore)))
TotalGap ==
    AbsQ(Sub(projection[1].fairTotal,
             Add(projection[1].projectedAwayScore, projection[1].projectedHomeScore)))

C2_VolatilityInRange ==
    Projected => projection[1].volatilityScore \in 0 .. 100

HasVolatilityDriver(text) ==
    \E i \in 1 .. Len(projection[1].volatilityDrivers) :
        projection[1].volatilityDrivers[i].text = text

\* the terms add up to more than 100 (45 + 15 + 18 + 8 + 10 + 5) and the
\* score is 100
C2_Witness ==
    /\ Projected
    /\ projection[1].volatilityScore = 100
    /\ HasVolatilityDriver("SoS mismatch")
    /\ HasVolatilityDriver("Near pick'em game")
    /\ HasVolatilityDriver("College sport: higher variance baseline")
    /\ HasVolatilityDriver("Pace mismatch")
    /\ HasVolatilityDriver("Incomplete Four Factors data")

HasOpportunity(marketType) ==
    \E i \in 1 .. Len(opportunities) : opportunities[i].marketType = marketType

Identified == pc = "done" /\ Projected

\* C3: identifyOpportunities returns no 'spread' opportunity when
\* |fairSpread - currentSpread| < 1 or currentSpread is null, and no 'total'
\* opportunity when |fairTotal - currentTotal| < 2 or currentTotal is null.
C3_NoOpportunityBelowThreshold ==
    Identified =>
        /\ (\/ currentSpread = NULL
            \/ Lt(AbsQ(Sub(projection[1].fairSpread, currentSpread)), N(1)))
               => ~HasOpportunity("spread")
        /\ (\/ currentTotal = NULL
            \/ Lt(AbsQ(Sub(projection[1].fairTotal, currentTotal)), N(2)))
               => ~HasOpportunity("total")

\* both lines are given, 0.9 and 1.9 away from the fair lines: the list is empty
C3_Witness ==
    /\ Identified
    /\ currentSpread # NULL
    /\ currentTotal # NULL
    /\ AbsQ(Sub(projection[1].fairSpread, currentSpread)) = Q(9, 10)
    /\ AbsQ(Sub(projection[1].fairTotal, currentTotal)) = Q(19, 10)
    /\ opportunities = <<>>

-----------------------------------------------------------------------------
(* Claims about the edge percentage of identifyOpportunities (Spec) *)

\* the spread opportunities of the returned list
SpreadOpportunities == {i \in 1 .. Len(opportunities) : opportunities[i].marketType = "spread"}

\* |fairSpread - marketSpread| / divisor * 100, to one decimal as stored
SpreadEdgePctOver(divisor) ==
    Round1(Mul(Div(AbsQ(Sub(projection[1].fairSpread, currentSpread)), divisor), N(100)))

\* C13 as stated: the spread edge percentage is
\* |fairSpread - marketSpread| / max(|marketSpread|, 1) * 100, the divisor
\* floored at 1 also for spreads with 0 < |marketSpread| < 1.
C13_DivisorFlooredAtOne ==
    Identified =>
        \A i \in SpreadOpportunities :
            opportunities[i].edgePercentage = SpreadEdgePctOver(MaxQ(AbsQ(currentSpread), N(1)))

\* C13: the divisor of the spread edge percentage is |marketSpread| for every
\* market spread other than 0, spreads with 0 < |marketSpread| < 1 included,
\* and 1 only for a market spread of exactly 0.
C13_DivisorOneOnlyAtZero ==
    Identified =>
        \A i \in SpreadOpportunities :
            opportunities[i].edgePercentage =
                SpreadEdgePctOver(IF currentSpread = N(0) THEN N(1) ELSE AbsQ(currentSpread))

\* a spread opportunity against a market spread of half a point whose edge
\* percentage is twice what a divisor of 1 gives
C13_Witness ==
    /\ Identified
    /\ AbsQ(currentSpread) = Q(1, 2)
    /\ \E i \in SpreadOpportunities :
           /\ opportunities[i].edgePercentage = SpreadEdgePctOver(Q(1, 2))
           /\ opportunities[i].edgePercentage # SpreadEdgePctOver(N(1))

-----------------------------------------------------------------------------
(* Claims about blendTeamStats (SpecBlend) *)

AllSplitsAbsent ==
    /\ ~args.homeStats.defined
    /\ ~args.awayStats.defined
    /\ ~args.seasonStats.defined
    /\ ~args.recentStats.defined

FourFactorsAllNull(m) ==
    /\ m.effectiveFieldGoalPct = NULL
    /\ m.turnoverPct = NULL
    /\ m.offensiveReboundPct = NULL
    /\ m.freeThrowRate = NULL

\* the defaults as the claim states them: 21 for both football sports
ClaimedDefaultEff == [NFL |-> 21, CFB |-> 21, NBA |-> 114, CBB |-> 105]

\* the defaults with college football at 28
AmendedDefaultEff == [NFL |-> 21, CFB |-> 28, NBA |-> 114, CBB |-> 105]

ReturnsDefault(table) ==
    /\ ret.offensiveEfficiency = N(table[args.sport])
    /\ ret.defensiveEfficiency = N(table[args.sport])
    /\ (args.sport = "NBA" => ret.pace = N(100))
    /\ ret.strengthOfSchedule = N(0)
    /\ FourFactorsAllNull(ret)

\* C8 as stated: with all three splits absent blendTeamStats returns offensive
\* and defensive efficiency 114 (pace 100) for NBA, 105 for CBB and 21 for NFL
\* and CFB, strength of schedule 0 and null Four Factors.
C8_DefaultsAsClaimed ==
    (pc = "done" /\ AllSplitsAbsent) => ReturnsDefault(ClaimedDefaultEff)

\* C8 amended: the same, with the college-football default 28 instead of 21.
C8_DefaultsAmended ==
    (pc = "done" /\ AllSplitsAbsent) => ReturnsDefault(AmendedDefaultEff)

C8_Witness ==
    /\ pc = "done"
    /\ AllSplitsAbsent
    /\ args.sport = "CFB"
    /\ ret.offensiveEfficiency = N(28)

\* the weights as the claim states them
ClaimedWeights(sport) ==
    IF sport \in {"NFL", "CFB"} THEN <<55, 35, 10>> ELSE <<50, 40, 10>>

\* value * (sum of the weights of the present) = sum of present * weight
IsWeightedMean(value, effs, sport) ==
    LET w == ClaimedWeights(sport)
        present == {i \in 1 .. 3 : effs[i] # NULL}
        wsum == (IF 1 \in present THEN w[1] ELSE 0) + (IF 2 \in present THEN w[2] ELSE 0)
                + (IF 3 \in present THEN w[3] ELSE 0)
        term(i) == IF i \in present THEN Mul(effs[i], N(w[i])) ELSE N(0)
    IN  present # {} => Mul(value, N(wsum)) = Add(Add(term(1), term(2)), term(3))

OffEffs ==
    <<getOffEff(OrStats(args.homeStats, args.awayStats), args.sport),
      getOffEff(args.seasonStats, args.sport),
      getOffEff(args.recentStats, args.sport)>>

DefEffs ==
    <<getDefEff(OrStats(args.homeStats, args.awayStats), args.sport),
      getDefEff(args.seasonStats, args.sport),
      getDefEff(args.recentStats, args.sport)>>

-----------------------------------------------------------------------------
(* Claims about calculateExpectedPossessions (SpecPace) *)

PaceClashCase ==
    /\ args.sport \in {"NBA", "CBB"}
    /\ \/ Gt(Sub(args.awayPace, args.homePace), N(3))
       \/ Gt(Sub(args.homePace, args.awayPace), N(3))

\* twice the simple average
PaceSum == Add(args.awayPace, args.homePace)

\* five times the 60/40 pace: 3 * slower + 2 * faster
FiveTimesWeighted ==
    IF Lt(args.awayPace, args.homePace)
    THEN Add(Mul(N(3), args.awayPace), Mul(N(2), args.homePace))
    ELSE Add(Mul(N(3), args.homePace), Mul(N(2), args.awayPace))

\* C10: for NBA/CBB with a pace difference above 3 the possessions come from
\* 0.6 * slower + 0.4 * faster (times the 1.005 venue factor), paceClash is
\* that weighted pace minus the simple average and the driver names the slower
\* side; otherwise possessions are the simple average * 1.01, paceClash is 0
\* and there is no driver.
C10_PaceClash ==
    pc = "done" =>
        IF PaceClashCase
        THEN /\ Mul(ret.possessions, N(1000)) = Mul(FiveTimesWeighted, N(201))
             /\ Mul(ret.paceClash, N(10)) = Sub(Mul(FiveTimesWeighted, N(2)), Mul(PaceSum, N(5)))
             /\ Len(ret.driver) = 1
             /\ ret.driver[1].slowerTeam =
                    (IF Lt(args.awayPace, args.homePace) THEN "away" ELSE "home")
        ELSE /\ Mul(ret.possessions, N(200)) = Mul(PaceSum, N(101))
             /\ ret.paceClash = N(0)
             /\ ret.driver = NoDriver

\* NBA, away 105, home 92: the driver names the home side
C10_Witness ==
    /\ pc = "done"
    /\ args.sport = "NBA"
    /\ args.awayPace = N(105)
    /\ args.homePace = N(92)
    /\ Len(ret.driver) = 1
    /\ ret.driver[1].slowerTeam = "home"
    /\ ret.possessions # Mul(Div(PaceSum, N(2)), Q(101, 100))

-----------------------------------------------------------------------------
(* Claims about getConfidenceEnhanced (SpecConfidence) *)

TierRank(tier) == CASE tier = "Lean" -> 1 [] tier = "Medium" -> 2 [] tier = "High" -> 3

\* C4: with sport, volatility, kill-switch count and Four-Factors edge held
\* fixed, a larger edge percentage never gets a lower confidence tier
\* (Lean < Medium < High).
C4_MonotonicInEdge ==
    (pc = "done" /\ "edgeLo" \in DOMAIN args) =>
        TierRank(ret.lo) <= TierRank(ret.hi)

\* the tier rises from Lean to High between two edges, nothing else changed
C4_Witness ==
    /\ pc = "done"
    /\ "edgeLo" \in DOMAIN args
    /\ Lt(args.edgeLo, args.edgeHi)
    /\ ret.lo = "Lean"
    /\ ret.hi = "High"

-----------------------------------------------------------------------------
(* Claims about the kill-switch demotion of getConfidenceEnhanced (SpecConfidence) *)

\* C11: whatever the sport, the edge percentage, the volatility and the
\* Four-Factors edge, getConfidenceEnhanced returns "Lean" when the
\* kill-switch count is 2 or more.
C11_TwoKillSwitchesLean ==
    (pc = "done" /\ "edgeLo" \in DOMAIN args /\ args.killSwitchCount >= 2) =>
        (ret.lo = "Lean" /\ ret.hi = "Lean")

\* an edge of 7 at volatility 40 with the Four Factors aligned, which is
\* "High" without kill switches, is "Lean" with exactly two
C11_Witness ==
    /\ pc = "done"
    /\ "edgeLo" \in DOMAIN args
    /\ args.killSwitchCount = 2
    /\ args.edgeHi = N(7)
    /\ args.volatility = 40
    /\ FourFactorsAligned(args.fourFactorsEdge)
    /\ getConfidenceEnhanced(args.edgeHi, args.volatility, args.fourFactorsEdge, 0,
                             args.sport) = "High"
    /\ ret.hi = "Lean"

-----------------------------------------------------------------------------
(* Claims about detectRlm (SpecRlm) *)

RlmCalled == pc = "done" /\ "bettingPcts" \in DOMAIN args

\* indices of the market's entries of a list
OfMarket(seq) == {i \in 1 .. Len(seq) : seq[i].marketType = args.marketType}

\* the latest observation of the market: greatest capturedAt, the first in
\* the list among equals
LatestIndex(seq) ==
    CHOOSE i \in OfMarket(seq) :
        \A j \in OfMarket(seq) :
            \/ seq[j].capturedAt < seq[i].capturedAt
            \/ seq[j].capturedAt = seq[i].capturedAt /\ i <= j

EarliestIndex(seq) ==
    CHOOSE i \in OfMarket(seq) :
        \A j \in OfMarket(seq) :
            \/ seq[j].capturedAt > seq[i].capturedAt
            \/ seq[j].capturedAt = seq[i].capturedAt /\ i <= j

LatestTicketPct == args.bettingPcts[LatestIndex(args.bettingPcts)].ticketPercentage
LatestMoneyPct == args.bettingPcts[LatestIndex(args.bettingPcts)].moneyPercentage

\* size of the cumulative line movement of the market
CumulativeMovement ==
    AbsQ(Sub(args.lineMovements[LatestIndex(args.lineMovements)].currentValue,
             args.lineMovements[EarliestIndex(args.lineMovements)].previousValue))

\* C5: detectRlm returns null whenever the latest ticket percentage of the
\* market is below 60, whatever the money percentage, the divergence and the
\* cumulative line movement.
C5_NoSignalBelowSixty ==
    (/\ RlmCalled
     /\ OfMarket(args.bettingPcts) # {}
     /\ Lt(LatestTicketPct, N(60))) => ret = NoSignal

\* ticket 59, money 35 (divergence 24), the line moved 1.6: no signal
C5_Witness ==
    /\ RlmCalled
    /\ OfMarket(args.bettingPcts) # {}
    /\ OfMarket(args.lineMovements) # {}
    /\ LatestTicketPct = N(59)
    /\ LatestMoneyPct = N(35)
    /\ CumulativeMovement = Q(16, 10)
    /\ ret = NoSignal

ClaimedStrength(divergence, movement, ticketPct) ==
    IF Ge(divergence, N(15)) /\ Ge(movement, Q(15, 10)) /\ Ge(ticketPct, N(70))
    THEN "strong"
    ELSE IF Ge(divergence, N(10)) /\ Ge(movement, N(1)) THEN "moderate"
    ELSE "weak"

\* C6: when detectRlm fires, signalStrength is 'strong' only if divergence
\* >= 15, movement >= 1.5 and ticket% >= 70 all hold, otherwise 'moderate'
\* if divergence >= 10 and movement >= 1.0, else 'weak'.
C6_SignalStrength ==
    (RlmCalled /\ ret # NoSignal) =>
        /\ ret[1].lineMovementSize = CumulativeMovement
        /\ ret[1].signalStrength =
               ClaimedStrength(AbsQ(Sub(LatestMoneyPct, LatestTicketPct)),
                               CumulativeMovement, LatestTicketPct)

\* divergence 16, movement 1.6, ticket 65: the signal fires as 'moderate'
C6_Witness ==
    /\ RlmCalled
    /\ ret # NoSignal
    /\ LatestTicketPct = N(65)
    /\ LatestMoneyPct = N(49)
    /\ CumulativeMovement = Q(16, 10)
    /\ ret[1].signalStrength = "moderate"

-----------------------------------------------------------------------------
(* Claims about analyzeHandleSplit (SpecHandle) *)

HandleCalled == pc = "done" /\ "ticketPct" \in DOMAIN args

ClaimedRecommendation(divergence) ==
    IF Ge(divergence, N(20))
    THEN "Strong sharp money indicator. Consider fading the public."
    ELSE IF Ge(divergence, N(15))
    THEN "Moderate sharp money divergence. Worth monitoring."
    ELSE IF Ge(divergence, N(10))
    THEN "Slight sharp money lean detected."
    ELSE "No significant handle split detected."

\* C7: analyzeHandleSplit returns divergence = |moneyPct - ticketPct|,
\* isSharpMoney exactly when divergence >= 10 and moneyPct > ticketPct, and
\* the recommendation chosen by divergence alone (>= 20, >= 15, >= 10, else).
C7_HandleSplit ==
    HandleCalled =>
        LET d == IF Gt(args.moneyPct, args.ticketPct)
                 THEN Sub(args.moneyPct, args.ticketPct)
                 ELSE Sub(args.ticketPct, args.moneyPct)
        IN  /\ ret.divergence = d
            /\ ret.isSharpMoney = (Ge(d, N(10)) /\ Gt(args.moneyPct, args.ticketPct))
            /\ ret.recommendation = ClaimedRecommendation(d)

\* (70, 55): divergence 15 and the flag is false although divergence >= 10
C7_Witness ==
    /\ HandleCalled
    /\ args.ticketPct = N(70)
    /\ args.moneyPct = N(55)
    /\ ret.divergence = N(15)
    /\ ret.isSharpMoney = FALSE

\* C17: whenever detectRlm returns a signal, the money percentage is at most
\* 50 and differs from the ticket percentage by at least 10 points, although
\* the coded divergence threshold is 5.
C17_SignalDivergesByTen ==
    (RlmCalled /\ ret # NoSignal) =>
        /\ Le(LatestMoneyPct, N(50))
        /\ Ge(AbsQ(Sub(LatestMoneyPct, LatestTicketPct)), N(10))
        /\ ret[1].moneyPercentage = LatestMoneyPct
        /\ ret[1].ticketPercentage = LatestTicketPct

\* the smallest divergence of a signal: ticket 60 against money 50
C17_Witness ==
    /\ RlmCalled
    /\ ret # NoSignal
    /\ LatestTicketPct = N(60)
    /\ LatestMoneyPct = N(50)
    /\ AbsQ(Sub(ret[1].moneyPercentage, ret[1].ticketPercentage)) = N(10)

\* the line movements of the call with every line mirrored about the line the
\* market started from: the same sizes in the opposite direction
MirroredMovements ==
    [i \in 1 .. Len(args.lineMovements) |->
        IF args.lineMovements[i].marketType = args.marketType
        THEN [args.lineMovements[i] EXCEPT
                 !.previousValue = Sub(Mul(N(2), BaseLine), @),
                 !.currentValue = Sub(Mul(N(2), BaseLine), @)]
        ELSE args.lineMovements[i]]

\* C18 as stated: a signal is flagged only when the line moved against the
\* public side; with the ticket and money percentages fixed, a cumulative
\* movement of the same size in the opposite direction gives no signal, so
\* the two directions never both give one.
C18_OnlyContraryMovement ==
    (RlmCalled /\ ret # NoSignal) =>
        detectRlm(args.bettingPcts, MirroredMovements, args.marketType) = NoSignal

\* a signal on a line that moved up by 1.6, and the same signal but for the
\* direction on the line moved down by 1.6
C18_Witness ==
    /\ RlmCalled
    /\ ret # NoSignal
    /\ ret[1].lineMovementDirection = "up"
    /\ ret[1].lineMovementSize = Q(16, 10)
    /\ detectRlm(args.bettingPcts, MirroredMovements, args.marketType)
           = <<[ret[1] EXCEPT !.lineMovementDirection = "down"]>>

-----------------------------------------------------------------------------
(* Claims about what an Opportunity is derived from (SpecDerive) *)

DeriveCalled == pc = "done" /\ "projA" \in DOMAIN args

MarketTypes == {"spread", "total", "1h"}

\* the fair line the opportunities of a market type are measured against
FairLineOf(proj, marketType) ==
    CASE marketType = "spread" -> proj.fairSpread
      [] marketType = "total" -> proj.fairTotal
      [] marketType = "1h" -> proj.firstHalf.fairSpread

\* the two projections agree on the fair line of the market type, on the
\* volatility score and on the number of kill switches; the sport and the
\* market lines of the two calls are the same
AgreeOnTheFour(marketType) ==
    /\ FairLineOf(args.projA, marketType) = FairLineOf(args.projB, marketType)
    /\ args.projA.volatilityScore = args.projB.volatilityScore
    /\ Len(args.projA.killSwitches) = Len(args.projB.killSwitches)

\* whether the Four-Factors total edge of a projection is above 1 in size
TotalEdgeAboveOne(proj) ==
    proj.fourFactorsEdge # <<>> /\ Gt(AbsQ(proj.fourFactorsEdge[1].totalEdge), N(1))

\* edge percentage and confidence of the opportunities of a market type
Derived(list, marketType) ==
    {[edgePercentage |-> list[i].edgePercentage, confidence |-> list[i].confidence] :
        i \in {j \in 1 .. Len(list) : list[j].marketType = marketType}}

\* C15 as stated: two projections that agree on (market line, fair line,
\* volatility score, kill-switch count) yield the same edge percentage and
\* the same confidence tier.
C15_DerivedFromTheFour ==
    DeriveCalled =>
        \A mt \in MarketTypes :
            AgreeOnTheFour(mt) => Derived(ret.a, mt) = Derived(ret.b, mt)

\* C15: the edge percentage is a function of the market line and the fair
\* line alone, and the confidence tier one of (market line, fair line,
\* volatility score, kill-switch count) and of whether the projection's
\* Four-Factors total edge is above 1 in size: two projections that agree on
\* these yield the same edge percentage and the same confidence tier.
C15_DerivedFromTheFourAndAlignment ==
    DeriveCalled =>
        \A mt \in MarketTypes :
            (AgreeOnTheFour(mt) /\ TotalEdgeAboveOne(args.projA) = TotalEdgeAboveOne(args.projB))
                => Derived(ret.a, mt) = Derived(ret.b, mt)

\* the projections of two games with different fair spreads and different
\* Four-Factors edges, both above 1, agree on the four values of the total
\* market and get the same "High" total opportunity
C15_Witness ==
    /\ DeriveCalled
    /\ AgreeOnTheFour("total")
    /\ args.projA.fairSpread # args.projB.fairSpread
    /\ args.projA.fourFactorsEdge # args.projB.fourFactorsEdge
    /\ TotalEdgeAboveOne(args.projA)
    /\ TotalEdgeAboveOne(args.projB)
    /\ Derived(ret.a, "total") = Derived(ret.b, "total")
    /\ \E d \in Derived(ret.a, "total") : d.confidence = "High"

\* the second projection is the first one with other kill switches
OnlyKillSwitchesDiffer ==
    /\ args.projB = [args.projA EXCEPT !.killSwitches = args.projB.killSwitches]
    /\ args.projB.killSwitches # args.projA.killSwitches

\* an opportunity without its confidence tier and its killSwitches field
Advised(opp) == [opp EXCEPT !.confidence = "", !.killSwitches = <<>>]

\* C16: kill switches are advisory: a projection is returned whatever they
\* are, and changing only the contents of projection.killSwitches leaves the
\* opportunities identifyOpportunities returns the same but for their
\* confidence tier and their killSwitches field.
C16_KillSwitchesAdvisory ==
    DeriveCalled =>
        /\ {"fairSpread", "fairTotal", "volatilityScore", "killSwitches"}
               \subseteq DOMAIN args.projA
        /\ OnlyKillSwitchesDiffer =>
               /\ Len(ret.a) = Len(ret.b)
               /\ \A i \in 1 .. Len(ret.a) : Advised(ret.a[i]) = Advised(ret.b[i])

\* a projection without kill switches against the same one with two of them:
\* the same opportunities, "High" turned into "Lean"
C16_Witness ==
    /\ DeriveCalled
    /\ OnlyKillSwitchesDiffer
    /\ args.projA.killSwitches = <<>>
    /\ Len(args.projB.killSwitches) = 2
    /\ \E i \in 1 .. Len(ret.a) :
           /\ ret.a[i].confidence = "High"
           /\ ret.b[i].confidence = "Lean"
           /\ ret.b[i].killSwitches = <<args.projB.killSwitches>>
           /\ ret.a[i].killSwitches = <<>>

-----------------------------------------------------------------------------
(* Claims about upsertTeamStats (SpecUpsert) *)

UpsertsDone == pc = "serving" /\ \A c \in DOMAIN upserts : upserts[c].pc = "done"

KeyOf(row) == <<row.teamName, row.sport, row.splitType, row.source>>

\* C19 as stated: whatever the interleaving of the upsertTeamStats calls, the
\* table holds at most one row per (teamName, sport, splitType, source).
C19_OneRowPerKey ==
    pc = "serving" =>
        \A i, j \in 1 .. Len(teamStatsTable) :
            KeyOf(teamStatsTable[i]) = KeyOf(teamStatsTable[j]) => i = j

\* two callers are done and the table holds two rows of the key they both
\* upserted, with the numeric columns of the one and of the other
C19_Witness ==
    /\ UpsertsDone
    /\ \E i, j \in 1 .. Len(teamStatsTable) :
           /\ i < j
           /\ KeyOf(teamStatsTable[i]) = KeyOf(teamStatsTable[j])
           /\ teamStatsTable[i].stats # teamStatsTable[j].stats

-----------------------------------------------------------------------------
(* Claims about the opportunities rows of runFullPipeline and of            *)
(* POST /api/projections/generate (SpecPipeline)                            *)

OpportunityRows == {opportunitiesTable[i] : i \in 1 .. Len(opportunitiesTable)}

\* the writer of a row, by the algorithmVersion of the projections row it names
ByPipeline(row) ==
    projectionsTable[row.projectionId].algorithmVersion = PipelineVersion(row.sport)

ByRoute(row) ==
    projectionsTable[row.projectionId].algorithmVersion = ALGORITHM_VERSIONS[row.sport]

\* the market line the writer of the row compared the fair line with
MarketLineOf(row) ==
    IF row.marketType = "total"
    THEN PipelineMarketTotal(LatestOdds)
    ELSE IF ByPipeline(row) THEN PipelineMarketSpread(LatestOdds)
    ELSE LatestOdds[1].spreadHome

\* the side that follows the sign of (fair line - market line)
SideOfSign(row) ==
    LET positive == Gt(Sub(row.fairLine, MarketLineOf(row)), N(0))
    IN  IF row.marketType = "spread" THEN (IF positive THEN "away" ELSE "home")
        ELSE (IF positive THEN "over" ELSE "under")

\* C12: in every opportunity created, by identifyOpportunities or by
\* runFullPipeline, a spread opportunity has side "away" if fairSpread -
\* marketSpread > 0 and "home" otherwise, and a total opportunity has side
\* "over" if fairTotal - marketTotal > 0 and "under" otherwise, so that the two
\* producers give the same side for the same fair and market lines. The code
\* does not do this: determineSpreadSide of runFullPipeline gives "home" when
\* fairSpread - marketSpread > 0 and "away" otherwise.
C12_SideFollowsSign ==
    \A row \in OpportunityRows :
        row.marketType \in {"spread", "total"} => row.side = SideOfSign(row)

\* both producers have written a spread row for the same fair line and the
\* same market line, and the two rows name opposite sides
C12_Witness ==
    \E a \in OpportunityRows, b \in OpportunityRows :
        /\ ByRoute(a) /\ ByPipeline(b)
        /\ a.marketType = "spread" /\ b.marketType = "spread"
        /\ a.fairLine = b.fairLine
        /\ MarketLineOf(a) = MarketLineOf(b)
        /\ a.side = SideOfSign(a)
        /\ b.side # a.side

\* C14: the edgePercentage of every opportunity created is at least 0 and at
\* most 15, the cap of calculateEdgePercentage, for every fair line and market
\* line, in identifyOpportunities (spread, total and first-half) and in
\* runFullPipeline. The code does not do this: identifyOpportunities stores
\* |fair - market| / |market| * 100 with no upper cap.
C14_EdgeWithinCap ==
    \A row \in OpportunityRows :
        Ge(row.edgePercentage, N(0)) /\ Le(row.edgePercentage, N(15))

\* runFullPipeline has written a row at the cap and identifyOpportunities a
\* row of the same market above it
C14_Witness ==
    \E a \in OpportunityRows, b \in OpportunityRows :
        /\ ByPipeline(a) /\ ByRoute(b)
        /\ a.marketType = b.marketType
        /\ a.edgePercentage = N(15)
        /\ Gt(b.edgePercentage, N(15))

\* the rows with status "active" of one game, market type and side
ActiveRows(gameId, marketType, side) ==
    {i \in 1 .. Len(opportunitiesTable) :
        /\ opportunitiesTable[i].status = "active"
        /\ opportunitiesTable[i].gameId = gameId
        /\ opportunitiesTable[i].marketType = marketType
        /\ opportunitiesTable[i].side = side}

\* C20: after any number of runFullPipeline runs or POST
\* /api/projections/generate calls for the same game and unchanged lines, at
\* most one opportunities row with status "active" exists for each (gameId,
\* marketType, side), a later run superseding the row of the earlier one. The
\* code does not do this: every run inserts new active rows and none touches
\* the rows of an earlier run.
C20_OneActivePerSide ==
    \A i \in 1 .. Len(opportunitiesTable) :
        Cardinality(ActiveRows(opportunitiesTable[i].gameId,
                               opportunitiesTable[i].marketType,
                               opportunitiesTable[i].side)) <= 1

\* two runs of runFullPipeline on the same stats rows and odds rows have left
\* two active rows that differ in nothing but their ids
C20_Witness ==
    \E i \in 1 .. Len(opportunitiesTable), j \in 1 .. Len(opportunitiesTable) :
        /\ i < j
        /\ ByPipeline(opportunitiesTable[i]) /\ ByPipeline(opportunitiesTable[j])
        /\ opportunitiesTable[i].projectionId < opportunitiesTable[j].projectionId
        /\ opportunitiesTable[i].status = "active"
        /\ opportunitiesTable[j].status = "active"
        /\ \A f \in DOMAIN opportunitiesTable[i] \ {"id", "projectionId"} :
               opportunitiesTable[i][f] = opportunitiesTable[j][f]

-----------------------------------------------------------------------------
(* Claims about calculateVolatility (SpecVolatility) *)

VolatilityCalled == pc = "done" /\ "marginDiff" \in DOMAIN args /\ "restAdj" \in DOMAIN args

\* C21: every term that is added to or subtracted from the baseline 45 of
\* calculateVolatility comes with a push onto the drivers list, so a result
\* with no volatility driver has score exactly 45. The code does not do
\* this: the +3 term of a projected margin of 4 points or more and less than
\* 7 pushes no driver.
C21_NoDriversMeansBaseline ==
    (VolatilityCalled /\ ret.drivers = <<>>) => ret.score = 45

\* a result with no driver and a score other than the baseline
C21_Witness ==
    /\ VolatilityCalled
    /\ ret.drivers = <<>>
    /\ ret.score = 48
    /\ Ge(AbsQ(args.marginDiff), N(4)) /\ Lt(AbsQ(args.marginDiff), N(7))

-----------------------------------------------------------------------------
(* Claims about rest days in generateProjection (Spec) *)

\* either side of the game played the day before
OnBackToBack == options.homeRestDays = N(0) \/ options.awayRestDays = N(0)

\* C22: for NBA and CBB, whenever either side is on a back-to-back
\* (homeRestDays = 0 or awayRestDays = 0, travelling or not), the volatility
\* of the projection has the +5 back-to-back term, which comes with the
\* "Back-to-back in play" driver. The code does not do this: the term is
\* gated on a rest adjustment of 3 points or more, and a CBB back-to-back
\* costs 2 points unless the away team travels.
C22_BackToBackAddsVolatility ==
    (Projected /\ IsBasketball(game.sport) /\ OnBackToBack)
        => HasVolatilityDriver("Back-to-back in play")

\* a CBB projection with the home team on a back-to-back and no
\* back-to-back volatility driver
C22_Witness ==
    /\ Projected
    /\ game.sport = "CBB"
    /\ options.homeRestDays = N(0)
    /\ projection[1].restAdjustment.home = REST_ADJUSTMENTS["CBB"].backToBack
    /\ ~HasVolatilityDriver("Back-to-back in play")

-----------------------------------------------------------------------------
(* Claims about absent and zero efficiency inputs of blendTeamStats (SpecBlend) *)

\* the efficiency input of a split: points per play for football, the rating
\* (or, without one, points per possession) for basketball; NULL when the
\* split or the input is absent
OffInput(stats, sport) ==
    IF ~stats.defined THEN NULL
    ELSE IF IsFootball(sport) THEN stats.offensivePPP
    ELSE Coalesce(stats.offensiveRating, stats.offensivePPP)

DefInput(stats, sport) ==
    IF ~stats.defined THEN NULL
    ELSE IF IsFootball(sport) THEN stats.defensivePPP
    ELSE Coalesce(stats.defensiveRating, stats.defensivePPP)

\* the value a present input contributes, zero included
InputValue(input, sport) ==
    IF input = NULL THEN NULL
    ELSE IF IsFootball(sport) THEN Mul(input, N(7))
    ELSE normalizeBasketballRating(input)

\* the blend in which exactly the present inputs carry their weight
BlendOfPresent(inputs, sport, dflt) ==
    weightedAverage(InputValue(inputs[1], sport), InputValue(inputs[2], sport),
                    InputValue(inputs[3], sport), BLEND_WEIGHTS[sport], dflt)

OffInputs ==
    <<OffInput(OrStats(args.homeStats, args.awayStats), args.sport),
      OffInput(args.seasonStats, args.sport),
      OffInput(args.recentStats, args.sport)>>

DefInputs ==
    <<DefInput(OrStats(args.homeStats, args.awayStats), args.sport),
      DefInput(args.seasonStats, args.sport),
      DefInput(args.recentStats, args.sport)>>

BlendCalled == pc = "done" /\ "seasonStats" \in DOMAIN args

\* C23: blendTeamStats tells an absent efficiency input from a present zero:
\* a split whose input is absent contributes neither value nor weight, and a
\* split whose input is present with value 0 contributes 0 with its full
\* weight. The code does not do this: a basketball rating of 0 is dropped
\* like an absent one, and a football split with yards per play and no points
\* per play contributes 0 with its full weight.
C23_AbsentIsNotZero ==
    BlendCalled =>
        /\ ret.offensiveEfficiency =
               BlendOfPresent(OffInputs, args.sport, N(DEFAULT_METRICS[args.sport].offEff))
        /\ ret.defensiveEfficiency =
               BlendOfPresent(DefInputs, args.sport, N(DEFAULT_METRICS[args.sport].defEff))

\* NBA, a rated primary split and a season split whose ratings are 0: the
\* blend is the primary value alone
C23_Witness ==
    /\ BlendCalled
    /\ args.sport = "NBA"
    /\ args.homeStats = RatedBasketballRow("NBA", 0)
    /\ args.seasonStats = ZeroRow
    /\ ~args.recentStats.defined
    /\ OffInputs[2] = N(0)
    /\ ret.offensiveEfficiency = N(110)

-----------------------------------------------------------------------------
(* Claims about the side a signal of detectRlm reports (SpecRlm) *)

\* C24: the public side is the stated side of the latest observation when
\* ticket% > 50 and otherwise its opposite, the money side the same on
\* money%, the opposite being taken within the market, so that the side of a
\* signal is a side of its market: "home" or "away" for a spread, "over" or
\* "under" for a total. The code does not do this: the opposite of every side
\* other than "home" is "home", also on a total.
C24_SideOfTheMarket ==
    (RlmCalled /\ ret # NoSignal) => ret[1].side \in SidesOf(args.marketType)

\* a signal on a total that reports the side "home"
C24_Witness ==
    /\ RlmCalled
    /\ ret # NoSignal
    /\ args.marketType = "total"
    /\ ret[1].marketType = "total"
    /\ ret[1].side = "home"

-----------------------------------------------------------------------------
(* Claims about the volatility of the opportunities (Spec) *)

\* C25: every opportunity identifyOpportunities returns for a projection of
\* generateProjection has a volatilityScore within [0, 100], the first-half
\* ("1h") opportunities included, whose volatility is the projection's score
\* plus 5. The code does not do this: the sum is stored as it is, so a
\* projection score above 95 leaves the range.
C25_VolatilityInRange ==
    \A i \in 1 .. Len(opportunities) :
        opportunities[i].volatilityScore >= 0 /\ opportunities[i].volatilityScore <= 100

\* a first-half opportunity above 100 next to a projection within [0, 100]
C25_Witness ==
    /\ Projected
    /\ projection[1].volatilityScore <= 100
    /\ \E i \in 1 .. Len(opportunities) :
         /\ opportunities[i].marketType = "1h"
         /\ opportunities[i].volatilityScore = projection[1].volatilityScore + 5
         /\ opportunities[i].volatilityScore > 100

-----------------------------------------------------------------------------
(* Claims about missing Four Factors data (Spec) *)

\* the metrics generateProjection blends for the two sides
AwayMetrics ==
    blendTeamStats(awayTeamStats.away, Undefined, awayTeamStats.season,
                   awayTeamStats.recent, game.sport)
HomeMetrics ==
    blendTeamStats(homeTeamStats.home, Undefined, homeTeamStats.season,
                   homeTeamStats.recent, game.sport)

NeitherHasEfg ==
    /\ AwayMetrics.effectiveFieldGoalPct = NULL
    /\ HomeMetrics.effectiveFieldGoalPct = NULL

HasKillSwitch(text) ==
    \E i \in 1 .. Len(projection[1].killSwitches) : projection[1].killSwitches[i] = text

\* C26: whenever neither side has an effective-field-goal percentage (always
\* so for football rows), the projection carries the "No Four Factors data"
\* kill switch, and no opportunity derived from it has confidence "High",
\* whatever its edge percentage and volatility.
C26_NoFourFactorsNoHigh ==
    (Projected /\ NeitherHasEfg) =>
        /\ HasKillSwitch("No Four Factors data")
        /\ \A i \in 1 .. Len(opportunities) : opportunities[i].confidence # "High"

\* a football opportunity whose edge and volatility meet the "High" thresholds
\* and whose only kill switch is the missing data: it is "Medium"
C26_Witness ==
    /\ Projected
    /\ IsFootball(game.sport)
    /\ NeitherHasEfg
    /\ projection[1].killSwitches = <<"No Four Factors data">>
    /\ \E i \in 1 .. Len(opportunities) :
         /\ Ge(opportunities[i].edgePercentage, N(4))
         /\ opportunities[i].volatilityScore < 55
         /\ opportunities[i].confidence = "Medium"

-----------------------------------------------------------------------------
(* Claims about first-half opportunities (Spec) *)

OpportunitiesOf(marketType) ==
    {i \in 1 .. Len(opportunities) : opportunities[i].marketType = marketType}

\* C27: for a projection of generateProjection and a market spread that is
\* not null, whenever identifyOpportunities returns a first-half ("1h")
\* opportunity it also returns a full-game "spread" opportunity for the same
\* side: a first-half edge of 1.5 or more implies a full-game edge of 1 or
\* more with the same sign, though the two fair spreads are rounded apart.
C27_FirstHalfImpliesSpread ==
    \A i \in OpportunitiesOf("1h") :
        /\ Ge(AbsQ(Sub(projection[1].fairSpread, currentSpread)), N(1))
        /\ \E j \in OpportunitiesOf("spread") :
             opportunities[j].side = opportunities[i].side

\* a first-half opportunity next to the spread opportunity of its side, the
\* full-game edge below 4 points
C27_Witness ==
    /\ currentSpread # NULL
    /\ Lt(AbsQ(Sub(projection[1].fairSpread, currentSpread)), N(4))
    /\ \E i \in OpportunitiesOf("1h"), j \in OpportunitiesOf("spread") :
         /\ opportunities[j].side = opportunities[i].side
         /\ Ge(AbsQ(Sub(opportunities[i].fairLine,
                        Mul(currentSpread, FIRST_HALF_RATIOS[game.sport].spreadPct))),
               Q(15, 10))

-----------------------------------------------------------------------------
(* Claims about the line an away spread opportunity stores (SpecPipeline) *)

AwaySpreadRows ==
    {row \in OpportunityRows : row.marketType = "spread" /\ row.side = "away"}

\* final scores against which a stored line is graded
FinalScores == {<<20, 24>>, <<27, 20>>, <<110, 100>>, <<100, 104>>}

\* C28: a spread opportunity on the away side stores the away team's line,
\* the negated home-perspective market spread, which is what
\* determineSpreadResult assumes when it grades an away bet; an away
\* opportunity of identifyOpportunities and one of runFullPipeline for the
\* same market spread store the same currentLine and get the same backtest
\* result. The code does not do this: identifyOpportunities stores the
\* home-perspective spread on either side.
C28_AwayStoresAwayLine ==
    \A row \in AwaySpreadRows : row.currentLine = Neg(MarketLineOf(row))

\* an away row of each producer for the same market spread: the row of
\* runFullPipeline stores the away line, the row of identifyOpportunities the
\* home line, and some final score grades the two differently
C28_Witness ==
    \E a \in AwaySpreadRows, b \in AwaySpreadRows :
        /\ ByRoute(a) /\ ByPipeline(b)
        /\ MarketLineOf(a) = MarketLineOf(b)
        /\ b.currentLine = Neg(MarketLineOf(b))
        /\ a.currentLine = MarketLineOf(a)
        /\ a.currentLine # b.currentLine
        /\ \E s \in FinalScores :
             determineSpreadResult("away", a.currentLine, s[1], s[2])
                 # determineSpreadResult("away", b.currentLine, s[1], s[2])

-----------------------------------------------------------------------------
(* Claims about runBacktest (SpecBacktest) *)

BacktestCalled == pc = "done" /\ "signalType" \in DOMAIN args

\* the result under the rule of the opportunity's own market
OwnMarketResult(o) ==
    IF o.side \in {"home", "away"}
    THEN determineSpreadResult(o.side, o.currentLine, game.homeScore[1], game.awayScore[1])
    ELSE determineTotalResult(o.side, o.currentLine, game.homeScore[1], game.awayScore[1])

\* C29: runBacktest grades each opportunity by the rule of its own market: an
\* opportunity whose side is "home" or "away" (market type "spread" or "1h")
\* by the spread cover margin, and only over/under opportunities by the
\* final total against the line. The code does not do this: every market
\* type other than "spread" is graded by the total, the first half included.
C29_GradedByOwnMarket ==
    BacktestCalled =>
        \A i \in 1 .. Len(ret.outcomes) :
            ret.outcomes[i].result = OwnMarketResult(ret.outcomes[i])

\* a first-half opportunity on the home side at -1.9, the home team winning
\* by ten, graded a loss by the total rule where the cover margin says win
C29_Witness ==
    /\ BacktestCalled
    /\ game.homeScore = <<110>> /\ game.awayScore = <<100>>
    /\ \E i \in 1 .. Len(ret.outcomes) :
         /\ ret.outcomes[i].marketType = "1h"
         /\ ret.outcomes[i].side = "home"
         /\ ret.outcomes[i].result = "loss"
         /\ ret.outcomes[i].result =
                determineTotalResult("home", ret.outcomes[i].currentLine, 110, 100)
         /\ OwnMarketResult(ret.outcomes[i]) = "win"

\* C30: for every set of graded opportunities the summary of runBacktest has
\* wins + losses + pushes = totalSignals and a winPercentage that is a finite
\* number in [0, 100], also with no signal and when every graded opportunity
\* is a push. The code does not do this: with signals that are all pushes
\* the percentage is 0 / 0.
C30_SummaryWellFormed ==
    BacktestCalled =>
        /\ ret.summary.wins + ret.summary.losses + ret.summary.pushes
               = ret.summary.totalSignals
        /\ ret.summary.winPercentage # NaN
        /\ Ge(ret.summary.winPercentage, N(0))
        /\ Le(ret.summary.winPercentage, N(100))

\* signals, all of them pushes, and a winPercentage that is not a number
C30_Witness ==
    /\ BacktestCalled
    /\ ret.summary.totalSignals > 0
    /\ ret.summary.pushes = ret.summary.totalSignals
    /\ ret.summary.wins + ret.summary.losses = 0
    /\ ret.summary.winPercentage = NaN

====
